---- MODULE Spec2Model ----
(***************************************************************************)
(* A model of the generic helpers of aoc-helpers: the Dijkstra searches of  *)
(* generic/pathing.rs (dijkstra_cost, dijkstra_path) over Location node     *)
(* identities with the array-backed DefaultLocationCache, the DNode/DPNode  *)
(* heap orderings, and the Grid container of generic/grid.rs.               *)
(*                                                                         *)
(* The generic parameters are instantiated as T = Location, G = u8 and      *)
(* Cache = DefaultLocationCache<u8>.                                        *)
(***************************************************************************)
EXTENDS Integers, Sequences, FiniteSets, TLC

VARIABLES
    edges,       \* the graph behind edges_fn: a sequence of [src, id, cost]
    start,       \* the start node of both searches
    goal,        \* the goal node of both searches
    turn,        \* which of the two side-by-side calls takes the next step
    runs,        \* how many searches have been started on the caches
    c_pc,        \* dijkstra_cost: "init" | "loop" | "done" | "panic"
    c_cache,     \* dijkstra_cost: the DefaultLocationCache passed as cost_cache
    c_cache_in,  \* dijkstra_cost: cost_cache as it was when the call was made
    c_heap,      \* dijkstra_cost: the BinaryHeap of DNode, in push order
    c_last,      \* dijkstra_cost: the entry taken by the latest heap.pop()
    c_result,    \* dijkstra_cost: the returned Option<G>
    p_pc,        \* dijkstra_path: "init" | "loop" | "done" | "panic"
    p_cache,     \* dijkstra_path: the DefaultLocationCache passed as cost_cache
    p_cache_in,  \* dijkstra_path: cost_cache as it was when the call was made
    p_heap,      \* dijkstra_path: the BinaryHeap of DPNode, in push order
    p_last,      \* dijkstra_path: the entry taken by the latest heap.pop()
    p_result,    \* dijkstra_path: the returned Option<Vec<T>>
    c_iters,     \* dijkstra_cost: how many times heap.pop() has been called
    p_iters,     \* dijkstra_path: how many times heap.pop() has been called
    c_calls,     \* dijkstra_cost: the nodes edges_fn has been called with
    p_calls,     \* dijkstra_path: the nodes edges_fn has been called with
    lc,          \* cache operations: a DefaultLocationCache
    lc_pc,       \* cache operations: "ok" | "panic"
    lc_targets,  \* cache operations: the Locations cache_set was called with
    lc_last,     \* cache operations: the latest cache_set call
    table,       \* grid operations: the Vec<Vec<T>> handed to the constructor
    grid,        \* grid operations: the Grid, or its construction error
    grid_ctor,   \* grid operations: the constructor that was called
    grid_writes, \* grid operations: how many times set has been called
    grid_last,   \* grid operations: the latest set, and what it returned
    grid_scaled, \* grid operations: the latest get_scaled, and what it returned
    nodes,       \* ordering: a Vec of DNode
    sorted,      \* ordering: nodes after nodes.sort()
    loc_in,      \* Location functions: self, num_cols and idx of the call
    loc_out,     \* Location functions: the function called and its result
    hex_in,      \* HexLocation functions: self, other and dir of the call
    hex_out,     \* HexLocation functions: the function called and its result
    str_in,      \* Location::from_str: the text s
    str_out      \* Location::from_str: the returned Result

inputVars == <<edges, start, goal, runs>>

costVars ==
    <<c_pc, c_cache, c_cache_in, c_heap, c_last, c_result, c_iters, c_calls>>

pathVars ==
    <<p_pc, p_cache, p_cache_in, p_heap, p_last, p_result, p_iters, p_calls>>

searchVars == <<inputVars, turn, costVars, pathVars>>

cacheVars == <<lc, lc_pc, lc_targets, lc_last>>

gridVars == <<table, grid, grid_ctor, grid_writes, grid_last, grid_scaled>>

ordVars == <<nodes, sorted>>

locVars == <<loc_in, loc_out>>

hexVars == <<hex_in, hex_out>>

strVars == <<str_in, str_out>>

pureVars == <<locVars, hexVars, strVars>>

vars == <<searchVars, cacheVars, gridVars, ordVars, pureVars>>

(***************************************************************************)
(* Bounds of the model.                                                    *)
(***************************************************************************)
\* the longest edge list a graph is built from
MaxEdges == 3
\* edge costs range over 0 .. MaxEdgeCost
MaxEdgeCost == 1
\* SpecReuse: how many searches run one after the other on the same caches
MaxRuns == 2
\* SpecReuse: the longest edge list a graph is built from
MaxReuseEdges == 2
\* SpecSmall: the longest edge list, and the most slots of a cache
MaxSmallEdges == 2
MaxSmallSize == 2
\* SpecOrd: the longest Vec of DNode that is sorted, and the highest cost in it
MaxSortLen == 3
MaxSortCost == 1
\* SpecCache: the largest cache, the most columns, the highest value written
\* and the most calls of cache_set
MaxCacheSize == 3
MaxCacheCols == 2
MaxCacheVal == 1
MaxCacheSets == 2
\* SpecGrid: the most rows and columns of a table, and the most calls of set
MaxGridRows == 2
MaxGridCols == 2
MaxGridSets == 1
\* get_scaled is queried at coordinates 0..MaxScaledCoord, scales 0..MaxScale
MaxScaledCoord == 3
MaxScale == 2
\* SpecLoc: the highest row and col of self, the highest num_cols and idx
MaxCoord == 2
MaxWidth == 3
MaxIndex == 8
\* SpecHex: q and r of self and other are within MaxHex of zero
MaxHex == 2
\* SpecStr: the longest text that is parsed
MaxStrLen == 4

(***************************************************************************)
(* G = u8: G::max_value() and the width of cost arithmetic.                *)
(***************************************************************************)
CostMax == 255

CostAdd(a, b) == (a + b) % (CostMax + 1)

(***************************************************************************)
(* Location and its ordering (row-major).                                  *)
(***************************************************************************)
Location(r, c) == [row |-> r, col |-> c]

IntCmp(a, b) == IF a < b THEN "Less" ELSE IF a = b THEN "Equal" ELSE "Greater"

then_with(first, second) == IF first = "Equal" THEN second ELSE first

Location_cmp(self, other) ==
    then_with(IntCmp(self.row, other.row), IntCmp(self.col, other.col))

\* the row is dropped: the index is the column alone
as_rm_index_ignores_row(self, num_cols) == self.col

as_rm_index(self, num_cols) == self.row * num_cols + self.col

(***************************************************************************)
(* DNode / DPNode orderings: the comparison is reversed (other against     *)
(* self), on cost first and then on id.                                    *)
(***************************************************************************)
\* self is compared against other: neither comparison is reversed
DNode_cmp_unreversed(self, other) ==
    then_with(IntCmp(self.cost, other.cost), Location_cmp(self.id, other.id))

\* a tie on cost broken by self against other: the id comparison not reversed
DNode_cmp_id_unreversed(self, other) ==
    then_with(IntCmp(other.cost, self.cost), Location_cmp(self.id, other.id))

DNode_cmp(self, other) ==
    then_with(IntCmp(other.cost, self.cost), Location_cmp(other.id, self.id))

\* a tie on cost broken by self against other: the id comparison not reversed
DPNode_cmp_id_unreversed(self, other) ==
    then_with(IntCmp(other.cost, self.cost), Location_cmp(self.id, other.id))

DPNode_cmp(self, other) ==
    then_with(IntCmp(other.cost, self.cost), Location_cmp(other.id, self.id))

(***************************************************************************)
(* std BinaryHeap as the searches use it: push adds an entry, pop removes  *)
(* a greatest entry under the entry type's Ord (any one of them when       *)
(* several compare Equal).                                                 *)
(***************************************************************************)
\* push adds the entry twice
heap_push_twice(heap, x) == Append(Append(heap, x), x)

heap_push(heap, x) == Append(heap, x)

RemoveAt(s, i) == [k \in 1..(Len(s) - 1) |-> IF k < i THEN s[k] ELSE s[k + 1]]

\* the open set as a stack: pop removes the entry pushed last
DNode_pop_choices_last_pushed(heap) ==
    IF heap = <<>> THEN {} ELSE {Len(heap)}

DNode_pop_choices(heap) ==
    {i \in 1..Len(heap) :
        \A j \in 1..Len(heap) : DNode_cmp(heap[j], heap[i]) # "Greater"}

DPNode_pop_choices(heap) ==
    {i \in 1..Len(heap) :
        \A j \in 1..Len(heap) : DPNode_cmp(heap[j], heap[i]) # "Greater"}

(***************************************************************************)
(* DefaultLocationCache<G>: a Vec of costs indexed by row-major index.     *)
(* elements is 1-based here, so slot i of the Vec is elements[i + 1].      *)
(***************************************************************************)
\* the Vec is filled with G::zero() instead of G::max_value()
DefaultLocationCache_new_zeroed(size, col_count) ==
    [elements |-> [i \in 1..size |-> 0], col_count |-> col_count]

DefaultLocationCache_new(size, col_count) ==
    [elements |-> [i \in 1..size |-> CostMax], col_count |-> col_count]

\* indexing the Vec panics when the index is not below its length
cache_in_range(cache, id) ==
    as_rm_index(id, cache.col_count) < Len(cache.elements)

cache_get(cache, id) == cache.elements[as_rm_index(id, cache.col_count) + 1]

\* the slot is computed column-major: the row and the column are swapped
cache_set_col_major(cache, id, val) ==
    [cache EXCEPT !.elements[id.col * cache.col_count + id.row + 1] = val]

cache_set(cache, id, val) ==
    [cache EXCEPT !.elements[as_rm_index(id, cache.col_count) + 1] = val]

(***************************************************************************)
(* The inputs of a search.                                                 *)
(***************************************************************************)
\* the cache of a search covers a 2 x 2 grid
Nodes == {Location(0, 0), Location(0, 1), Location(1, 0), Location(1, 1)}

\* the nodes the edge function names; Location(1, 1) has no edges at all
EdgeNodes == {Location(0, 0), Location(0, 1), Location(1, 0)}

EdgeCosts == 0..MaxEdgeCost

AllEdges ==
    {e \in [src : EdgeNodes, id : EdgeNodes, cost : EdgeCosts] : e.id # e.src}

\* one list per edge function: the edges are grouped by source node
SrcSorted(es) ==
    \A i \in 1..(Len(es) - 1) : Location_cmp(es[i].src, es[i + 1].src) # "Greater"

RECURSIVE edges_of(_, _)
edges_of(es, n) ==
    IF es = <<>> THEN <<>>
    ELSE LET rest == edges_of(Tail(es), n)
         IN IF Head(es).src = n
            THEN <<[id |-> Head(es).id, cost |-> Head(es).cost]>> \o rest
            ELSE rest

\* edges_fn(&id): the Vec<DEdge> of the outgoing edges of id, in list order
edges_fn(id) == edges_of(edges, id)

None == [some |-> FALSE]

NoEntry == [id |-> Location(0, 0), cost |-> 0, path |-> <<>>]

FreshCache == DefaultLocationCache_new(Cardinality(Nodes), 2)

(***************************************************************************)
(* dijkstra_cost                                                           *)
(***************************************************************************)
\* the candidate cost is the edge cost alone, the cost so far is dropped
RECURSIVE dijkstra_cost_relax_no_sum(_, _, _, _)
dijkstra_cost_relax_no_sum(cache, heap, cost, es) ==
    IF es = <<>> THEN [cache |-> cache, heap |-> heap, ok |-> TRUE]
    ELSE LET edge == Head(es)
             next == [id |-> edge.id, cost |-> edge.cost]
         IN IF ~cache_in_range(cache, next.id)
            THEN [cache |-> cache, heap |-> heap, ok |-> FALSE]
            ELSE IF next.cost < cache_get(cache, next.id)
                 THEN dijkstra_cost_relax_no_sum(cache_set(cache, next.id, next.cost),
                                                 heap_push(heap, next), cost, Tail(es))
                 ELSE dijkstra_cost_relax_no_sum(cache, heap, cost, Tail(es))

\* a candidate is taken when it is not worse (<=) instead of strictly better (<)
RECURSIVE dijkstra_cost_relax_not_strict(_, _, _, _)
dijkstra_cost_relax_not_strict(cache, heap, cost, es) ==
    IF es = <<>> THEN [cache |-> cache, heap |-> heap, ok |-> TRUE]
    ELSE LET edge == Head(es)
             next == [id |-> edge.id, cost |-> CostAdd(cost, edge.cost)]
         IN IF ~cache_in_range(cache, next.id)
            THEN [cache |-> cache, heap |-> heap, ok |-> FALSE]
            ELSE IF next.cost <= cache_get(cache, next.id)
                 THEN dijkstra_cost_relax_not_strict(cache_set(cache, next.id, next.cost),
                                                     heap_push(heap, next), cost, Tail(es))
                 ELSE dijkstra_cost_relax_not_strict(cache, heap, cost, Tail(es))

\* the cache is written only by a strictly better candidate, but the entry is
\* pushed for every edge
RECURSIVE dijkstra_cost_relax_push_always(_, _, _, _)
dijkstra_cost_relax_push_always(cache, heap, cost, es) ==
    IF es = <<>> THEN [cache |-> cache, heap |-> heap, ok |-> TRUE]
    ELSE LET edge == Head(es)
             next == [id |-> edge.id, cost |-> CostAdd(cost, edge.cost)]
         IN IF ~cache_in_range(cache, next.id)
            THEN [cache |-> cache, heap |-> heap, ok |-> FALSE]
            ELSE IF next.cost < cache_get(cache, next.id)
                 THEN dijkstra_cost_relax_push_always(cache_set(cache, next.id, next.cost),
                                                      heap_push(heap, next), cost, Tail(es))
                 ELSE dijkstra_cost_relax_push_always(cache, heap_push(heap, next),
                                                      cost, Tail(es))

\* an edge to a node outside the cache is skipped instead of read
RECURSIVE dijkstra_cost_relax_skips_out_of_range(_, _, _, _)
dijkstra_cost_relax_skips_out_of_range(cache, heap, cost, es) ==
    IF es = <<>> THEN [cache |-> cache, heap |-> heap, ok |-> TRUE]
    ELSE LET edge == Head(es)
             next == [id |-> edge.id, cost |-> CostAdd(cost, edge.cost)]
         IN IF ~cache_in_range(cache, next.id)
            THEN dijkstra_cost_relax_skips_out_of_range(cache, heap, cost, Tail(es))
            ELSE IF next.cost < cache_get(cache, next.id)
                 THEN dijkstra_cost_relax_skips_out_of_range(
                          cache_set(cache, next.id, next.cost),
                          heap_push(heap, next), cost, Tail(es))
                 ELSE dijkstra_cost_relax_skips_out_of_range(cache, heap, cost, Tail(es))

\* a strictly better candidate is pushed, but the cache is not written
RECURSIVE dijkstra_cost_relax_no_cache_write(_, _, _, _)
dijkstra_cost_relax_no_cache_write(cache, heap, cost, es) ==
    IF es = <<>> THEN [cache |-> cache, heap |-> heap, ok |-> TRUE]
    ELSE LET edge == Head(es)
             next == [id |-> edge.id, cost |-> CostAdd(cost, edge.cost)]
         IN IF ~cache_in_range(cache, next.id)
            THEN [cache |-> cache, heap |-> heap, ok |-> FALSE]
            ELSE IF next.cost < cache_get(cache, next.id)
                 THEN dijkstra_cost_relax_no_cache_write(cache, heap_push(heap, next),
                                                         cost, Tail(es))
                 ELSE dijkstra_cost_relax_no_cache_write(cache, heap, cost, Tail(es))

\* the for loop over the edges of the popped node; ok is FALSE when a cache
\* access was out of range
RECURSIVE dijkstra_cost_relax(_, _, _, _)
dijkstra_cost_relax(cache, heap, cost, es) ==
    IF es = <<>> THEN [cache |-> cache, heap |-> heap, ok |-> TRUE]
    ELSE LET edge == Head(es)
             next == [id |-> edge.id, cost |-> CostAdd(cost, edge.cost)]
         IN IF ~cache_in_range(cache, next.id)
            THEN [cache |-> cache, heap |-> heap, ok |-> FALSE]
            ELSE IF next.cost < cache_get(cache, next.id)
                 THEN dijkstra_cost_relax(cache_set(cache, next.id, next.cost),
                                          heap_push(heap, next), cost, Tail(es))
                 ELSE dijkstra_cost_relax(cache, heap, cost, Tail(es))

\* line 201: return Some(cost)
dijkstra_cost_return(node) == [some |-> TRUE, cost |-> node.cost]

\* lines 190-197: the heap is created, start is cached at zero and pushed
dijkstra_cost_begin ==
    /\ turn = "cost"
    /\ c_pc = "init"
    /\ c_cache_in' = c_cache
    /\ IF cache_in_range(c_cache, start)
       THEN /\ c_cache' = cache_set(c_cache, start, 0)
            /\ c_heap' = heap_push(<<>>, [id |-> start, cost |-> 0])
            /\ c_pc' = "loop"
       ELSE /\ c_pc' = "panic"
            /\ UNCHANGED <<c_cache, c_heap>>
    /\ UNCHANGED <<c_iters, c_calls>>
    /\ turn' = IF p_pc \in {"init", "loop"} THEN "path" ELSE "cost"
    /\ UNCHANGED <<c_last, c_result>>
    /\ UNCHANGED <<inputVars, pathVars, cacheVars, gridVars, ordVars, pureVars>>

\* lines 199-202: the popped entry is the goal
dijkstra_cost_goal ==
    /\ turn = "cost"
    /\ c_pc = "loop"
    /\ \E i \in DNode_pop_choices(c_heap) :
        /\ c_heap[i].id = goal
        /\ c_last' = c_heap[i]
        /\ c_heap' = RemoveAt(c_heap, i)
        /\ c_result' = dijkstra_cost_return(c_heap[i])
        /\ c_pc' = "done"
    /\ c_iters' = c_iters + 1
    /\ turn' = IF p_pc \in {"init", "loop"} THEN "path" ELSE "cost"
    /\ UNCHANGED <<c_cache, c_cache_in, c_calls>>
    /\ UNCHANGED <<inputVars, pathVars, cacheVars, gridVars, ordVars, pureVars>>

\* the stale entry is not dropped: its edges are walked like those of a live one
dijkstra_cost_stale_expands ==
    /\ turn = "cost"
    /\ c_pc = "loop"
    /\ \E i \in DNode_pop_choices(c_heap) :
        /\ c_heap[i].id # goal
        /\ c_heap[i].cost > cache_get(c_cache, c_heap[i].id)
        /\ c_last' = c_heap[i]
        /\ c_calls' = Append(c_calls, c_heap[i].id)
        /\ LET r == dijkstra_cost_relax(c_cache, RemoveAt(c_heap, i),
                                        c_heap[i].cost, edges_fn(c_heap[i].id))
           IN /\ c_cache' = r.cache
              /\ c_heap' = r.heap
              /\ c_pc' = IF r.ok THEN "loop" ELSE "panic"
    /\ c_iters' = c_iters + 1
    /\ turn' = IF p_pc \in {"init", "loop"} THEN "path" ELSE "cost"
    /\ UNCHANGED <<c_cache_in, c_result>>
    /\ UNCHANGED <<inputVars, pathVars, cacheVars, gridVars, ordVars, pureVars>>

\* lines 204-206: the popped entry is stale
dijkstra_cost_stale ==
    /\ turn = "cost"
    /\ c_pc = "loop"
    /\ \E i \in DNode_pop_choices(c_heap) :
        /\ c_heap[i].id # goal
        /\ c_heap[i].cost > cache_get(c_cache, c_heap[i].id)
        /\ c_last' = c_heap[i]
        /\ c_heap' = RemoveAt(c_heap, i)
    /\ c_iters' = c_iters + 1
    /\ turn' = IF p_pc \in {"init", "loop"} THEN "path" ELSE "cost"
    /\ UNCHANGED <<c_pc, c_cache, c_cache_in, c_result, c_calls>>
    /\ UNCHANGED <<inputVars, pathVars, cacheVars, gridVars, ordVars, pureVars>>

\* lines 208-218: the popped entry is expanded
dijkstra_cost_expand ==
    /\ turn = "cost"
    /\ c_pc = "loop"
    /\ \E i \in DNode_pop_choices(c_heap) :
        /\ c_heap[i].id # goal
        /\ ~(c_heap[i].cost > cache_get(c_cache, c_heap[i].id))
        /\ c_last' = c_heap[i]
        /\ c_calls' = Append(c_calls, c_heap[i].id)
        /\ LET r == dijkstra_cost_relax(c_cache, RemoveAt(c_heap, i),
                                        c_heap[i].cost, edges_fn(c_heap[i].id))
           IN /\ c_cache' = r.cache
              /\ c_heap' = r.heap
              /\ c_pc' = IF r.ok THEN "loop" ELSE "panic"
    /\ c_iters' = c_iters + 1
    /\ turn' = IF p_pc \in {"init", "loop"} THEN "path" ELSE "cost"
    /\ UNCHANGED <<c_cache_in, c_result>>
    /\ UNCHANGED <<inputVars, pathVars, cacheVars, gridVars, ordVars, pureVars>>

\* lines 199, 221: heap.pop() is None, the loop ends and None is returned
dijkstra_cost_exhausted ==
    /\ turn = "cost"
    /\ c_pc = "loop"
    /\ c_heap = <<>>
    /\ c_result' = None
    /\ c_pc' = "done"
    /\ c_iters' = c_iters + 1
    /\ turn' = IF p_pc \in {"init", "loop"} THEN "path" ELSE "cost"
    /\ UNCHANGED <<c_cache, c_cache_in, c_heap, c_last, c_calls>>
    /\ UNCHANGED <<inputVars, pathVars, cacheVars, gridVars, ordVars, pureVars>>

(***************************************************************************)
(* dijkstra_path                                                           *)
(***************************************************************************)
\* the path is cloned but the destination is not pushed onto it
RECURSIVE dijkstra_path_relax_no_push(_, _, _, _, _)
dijkstra_path_relax_no_push(cache, heap, cost, path, es) ==
    IF es = <<>> THEN [cache |-> cache, heap |-> heap, ok |-> TRUE]
    ELSE LET edge == Head(es)
             new_path == path
             next == [id |-> edge.id, cost |-> CostAdd(cost, edge.cost),
                      path |-> new_path]
         IN IF ~cache_in_range(cache, next.id)
            THEN [cache |-> cache, heap |-> heap, ok |-> FALSE]
            ELSE IF next.cost < cache_get(cache, next.id)
                 THEN dijkstra_path_relax_no_push(cache_set(cache, next.id, next.cost),
                                                  heap_push(heap, next), cost, path, Tail(es))
                 ELSE dijkstra_path_relax_no_push(cache, heap, cost, path, Tail(es))

\* a candidate is taken when it is not worse (<=) instead of strictly better (<)
RECURSIVE dijkstra_path_relax_not_strict(_, _, _, _, _)
dijkstra_path_relax_not_strict(cache, heap, cost, path, es) ==
    IF es = <<>> THEN [cache |-> cache, heap |-> heap, ok |-> TRUE]
    ELSE LET edge == Head(es)
             new_path == Append(path, edge.id)
             next == [id |-> edge.id, cost |-> CostAdd(cost, edge.cost),
                      path |-> new_path]
         IN IF ~cache_in_range(cache, next.id)
            THEN [cache |-> cache, heap |-> heap, ok |-> FALSE]
            ELSE IF next.cost <= cache_get(cache, next.id)
                 THEN dijkstra_path_relax_not_strict(cache_set(cache, next.id, next.cost),
                                                     heap_push(heap, next), cost, path,
                                                     Tail(es))
                 ELSE dijkstra_path_relax_not_strict(cache, heap, cost, path, Tail(es))

\* the for loop over the edges of the popped node; ok is FALSE when a cache
\* access was out of range
RECURSIVE dijkstra_path_relax(_, _, _, _, _)
dijkstra_path_relax(cache, heap, cost, path, es) ==
    IF es = <<>> THEN [cache |-> cache, heap |-> heap, ok |-> TRUE]
    ELSE LET edge == Head(es)
             new_path == Append(path, edge.id)
             next == [id |-> edge.id, cost |-> CostAdd(cost, edge.cost),
                      path |-> new_path]
         IN IF ~cache_in_range(cache, next.id)
            THEN [cache |-> cache, heap |-> heap, ok |-> FALSE]
            ELSE IF next.cost < cache_get(cache, next.id)
                 THEN dijkstra_path_relax(cache_set(cache, next.id, next.cost),
                                          heap_push(heap, next), cost, path, Tail(es))
                 ELSE dijkstra_path_relax(cache, heap, cost, path, Tail(es))

\* the cost is returned together with the path
dijkstra_path_return_with_cost(node) ==
    [some |-> TRUE, cost |-> node.cost, path |-> node.path]

\* line 250: return Some(path)
dijkstra_path_return(node) == [some |-> TRUE, path |-> node.path]

\* the first entry is pushed with an empty path instead of vec![start]
dijkstra_path_begin_empty_path ==
    /\ turn = "path"
    /\ p_pc = "init"
    /\ p_cache_in' = p_cache
    /\ IF cache_in_range(p_cache, start)
       THEN /\ p_cache' = cache_set(p_cache, start, 0)
            /\ p_heap' = heap_push(<<>>, [id |-> start, cost |-> 0, path |-> <<>>])
            /\ p_pc' = "loop"
       ELSE /\ p_pc' = "panic"
            /\ UNCHANGED <<p_cache, p_heap>>
    /\ UNCHANGED <<p_iters, p_calls>>
    /\ turn' = IF c_pc \in {"init", "loop"} THEN "cost" ELSE "path"
    /\ UNCHANGED <<p_last, p_result>>
    /\ UNCHANGED <<inputVars, costVars, cacheVars, gridVars, ordVars, pureVars>>

\* lines 236-246: the heap is created, start is cached at zero and pushed
dijkstra_path_begin ==
    /\ turn = "path"
    /\ p_pc = "init"
    /\ p_cache_in' = p_cache
    /\ IF cache_in_range(p_cache, start)
       THEN /\ p_cache' = cache_set(p_cache, start, 0)
            /\ p_heap' = heap_push(<<>>, [id |-> start, cost |-> 0, path |-> <<start>>])
            /\ p_pc' = "loop"
       ELSE /\ p_pc' = "panic"
            /\ UNCHANGED <<p_cache, p_heap>>
    /\ UNCHANGED <<p_iters, p_calls>>
    /\ turn' = IF c_pc \in {"init", "loop"} THEN "cost" ELSE "path"
    /\ UNCHANGED <<p_last, p_result>>
    /\ UNCHANGED <<inputVars, costVars, cacheVars, gridVars, ordVars, pureVars>>

\* lines 248-251: the popped entry is the goal
dijkstra_path_goal ==
    /\ turn = "path"
    /\ p_pc = "loop"
    /\ \E i \in DPNode_pop_choices(p_heap) :
        /\ p_heap[i].id = goal
        /\ p_last' = p_heap[i]
        /\ p_heap' = RemoveAt(p_heap, i)
        /\ p_result' = dijkstra_path_return(p_heap[i])
        /\ p_pc' = "done"
    /\ p_iters' = p_iters + 1
    /\ turn' = IF c_pc \in {"init", "loop"} THEN "cost" ELSE "path"
    /\ UNCHANGED <<p_cache, p_cache_in, p_calls>>
    /\ UNCHANGED <<inputVars, costVars, cacheVars, gridVars, ordVars, pureVars>>

\* lines 253-255: the popped entry is stale
dijkstra_path_stale ==
    /\ turn = "path"
    /\ p_pc = "loop"
    /\ \E i \in DPNode_pop_choices(p_heap) :
        /\ p_heap[i].id # goal
        /\ p_heap[i].cost > cache_get(p_cache, p_heap[i].id)
        /\ p_last' = p_heap[i]
        /\ p_heap' = RemoveAt(p_heap, i)
    /\ p_iters' = p_iters + 1
    /\ turn' = IF c_pc \in {"init", "loop"} THEN "cost" ELSE "path"
    /\ UNCHANGED <<p_pc, p_cache, p_cache_in, p_result, p_calls>>
    /\ UNCHANGED <<inputVars, costVars, cacheVars, gridVars, ordVars, pureVars>>

\* lines 257-273: the popped entry is expanded
dijkstra_path_expand ==
    /\ turn = "path"
    /\ p_pc = "loop"
    /\ \E i \in DPNode_pop_choices(p_heap) :
        /\ p_heap[i].id # goal
        /\ ~(p_heap[i].cost > cache_get(p_cache, p_heap[i].id))
        /\ p_last' = p_heap[i]
        /\ p_calls' = Append(p_calls, p_heap[i].id)
        /\ LET r == dijkstra_path_relax(p_cache, RemoveAt(p_heap, i), p_heap[i].cost,
                                        p_heap[i].path, edges_fn(p_heap[i].id))
           IN /\ p_cache' = r.cache
              /\ p_heap' = r.heap
              /\ p_pc' = IF r.ok THEN "loop" ELSE "panic"
    /\ p_iters' = p_iters + 1
    /\ turn' = IF c_pc \in {"init", "loop"} THEN "cost" ELSE "path"
    /\ UNCHANGED <<p_cache_in, p_result>>
    /\ UNCHANGED <<inputVars, costVars, cacheVars, gridVars, ordVars, pureVars>>

\* lines 248, 276: heap.pop() is None, the loop ends and None is returned
dijkstra_path_exhausted ==
    /\ turn = "path"
    /\ p_pc = "loop"
    /\ p_heap = <<>>
    /\ p_result' = None
    /\ p_pc' = "done"
    /\ p_iters' = p_iters + 1
    /\ turn' = IF c_pc \in {"init", "loop"} THEN "cost" ELSE "path"
    /\ UNCHANGED <<p_cache, p_cache_in, p_heap, p_last, p_calls>>
    /\ UNCHANGED <<inputVars, costVars, cacheVars, gridVars, ordVars, pureVars>>

(***************************************************************************)
(* Vec<DNode>::sort(): a stable sort by DNode::cmp, as an insertion sort.  *)
(***************************************************************************)
RECURSIVE sort_insert(_, _)
sort_insert(x, s) ==
    IF s = <<>> THEN <<x>>
    ELSE IF DNode_cmp(x, Head(s)) = "Less"
         THEN <<x>> \o s
         ELSE <<Head(s)>> \o sort_insert(x, Tail(s))

RECURSIVE sort(_)
sort(s) ==
    IF s = <<>> THEN <<>>
    ELSE sort_insert(s[Len(s)], sort(SubSeq(s, 1, Len(s) - 1)))

DNodes == [id : Nodes, cost : 0..MaxSortCost]

\* nodes.sort()
nodes_sort ==
    /\ nodes # <<>>
    /\ sorted = <<>>
    /\ sorted' = sort(nodes)
    /\ UNCHANGED nodes
    /\ UNCHANGED <<searchVars, cacheVars, gridVars, pureVars>>

(***************************************************************************)
(* Operations on a DefaultLocationCache by itself.                         *)
(***************************************************************************)
\* cache_set has not been called
NoCacheSet == [called |-> FALSE]

CacheLocations ==
    {Location(r, c) : r \in 0..MaxCacheSize, c \in 0..MaxCacheCols}

\* cache.cache_set(&id, val); the Vec index panics when it is out of range
lc_cache_set ==
    /\ lc_pc = "ok"
    /\ Cardinality(lc_targets) < MaxCacheSets
    /\ \E id \in CacheLocations, val \in 0..MaxCacheVal :
          /\ lc_last' = [called |-> TRUE, id |-> id, val |-> val]
          /\ IF cache_in_range(lc, id)
             THEN /\ lc' = cache_set(lc, id, val)
                  /\ lc_targets' = lc_targets \cup {id}
                  /\ UNCHANGED lc_pc
             ELSE /\ lc_pc' = "panic"
                  /\ UNCHANGED <<lc, lc_targets>>
    /\ UNCHANGED <<searchVars, gridVars, ordVars, pureVars>>

(***************************************************************************)
(* Grid<T>: locations is the Vec of rows, rows and cols the stored sizes.  *)
(***************************************************************************)
\* two items are enough to tell the cells of a table apart
GridItems == {"a", "b"}

GridRowsOf == UNION {[1..n -> GridItems] : n \in 0..MaxGridCols}

Tables == UNION {[1..n -> GridRowsOf] : n \in 0..MaxGridRows}

GridLocations ==
    {Location(r, c) : r \in 0..MaxGridRows, c \in 0..MaxGridCols}

Unbuilt == [tag |-> "Unbuilt"]

\* locations.first().map(|r| r.len()).unwrap_or_default()
first_len(value) == IF value = <<>> THEN 0 ELSE Len(value[1])

\* Grid::new: the stored sizes are read off the table, which is not checked
Grid_new(locations) ==
    [tag |-> "Ok", locations |-> locations,
     rows |-> Len(locations), cols |-> first_len(locations)]

\* the rows are not compared with the first row
Grid_try_from_unchecked(value) ==
    [tag |-> "Ok", locations |-> value,
     rows |-> Len(value), cols |-> first_len(value)]

\* TryFrom<Vec<Vec<T>>>: an error when a row is not as long as the first
Grid_try_from(value) ==
    LET rows == Len(value)
        cols == first_len(value)
    IN IF \E i \in 1..Len(value) : Len(value[i]) # cols
       THEN [tag |-> "Err", err |-> "GridConstructionError",
             msg |-> "Not all rows are the same length"]
       ELSE [tag |-> "Ok", locations |-> value, rows |-> rows, cols |-> cols]

\* #[derive(Default)]
Grid_default == [tag |-> "Ok", locations |-> <<>>, rows |-> 0, cols |-> 0]

\* Grid::get: the row, then the column, each looked up with slice::get
Grid_get(g, location) ==
    IF location.row < Len(g.locations)
    THEN LET r == g.locations[location.row + 1]
         IN IF location.col < Len(r)
            THEN [some |-> TRUE, val |-> r[location.col + 1]]
            ELSE [some |-> FALSE]
    ELSE [some |-> FALSE]

\* GridLike::set: get_mut(location).map(|v| *v = value); the grid afterwards
Grid_set(g, location, value) ==
    IF Grid_get(g, location).some
    THEN [g EXCEPT !.locations[location.row + 1][location.col + 1] = value]
    ELSE g

\* Grid::get_mut: the same two lookups as get, with get_mut
Grid_get_mut(g, location) ==
    IF location.row < Len(g.locations)
    THEN LET r == g.locations[location.row + 1]
         IN IF location.col < Len(r)
            THEN [some |-> TRUE, val |-> r[location.col + 1]]
            ELSE [some |-> FALSE]
    ELSE [some |-> FALSE]

\* GridLike::set: what it returns, .is_some() of the mapped get_mut
Grid_set_returns(g, location, value) == Grid_get_mut(g, location).some

\* the caller's scale_fn: Fn(&Item, usize, usize) -> Item, kept symbolic
scale_fn(v, r_fac, c_fac) == [item |-> v, r_fac |-> r_fac, c_fac |-> c_fac]

\* the divisions and remainders by rows() and cols() panic on a zero divisor
Grid_get_scaled_panics(g) == g.rows = 0 \/ g.cols = 0

\* the tile factors are not compared with scale
Grid_get_scaled_unbounded(g, location, scale) ==
    LET r_fac == location.row \div g.rows
        c_fac == location.col \div g.cols
        row == location.row % g.rows
        col == location.col % g.cols
        cell == Grid_get(g, Location(row, col))
    IN IF cell.some
       THEN [some |-> TRUE, val |-> scale_fn(cell.val, r_fac, c_fac)]
       ELSE [some |-> FALSE]

\* Scalable::get_scaled, where rows() and cols() are not zero
Grid_get_scaled(g, location, scale) ==
    LET r_fac == location.row \div g.rows
        c_fac == location.col \div g.cols
    IN IF r_fac >= scale \/ c_fac >= scale
       THEN [some |-> FALSE]
       ELSE LET row == location.row % g.rows
                col == location.col % g.cols
                cell == Grid_get(g, Location(row, col))
            IN IF cell.some
               THEN [some |-> TRUE, val |-> scale_fn(cell.val, r_fac, c_fac)]
               ELSE [some |-> FALSE]

ScaledLocations ==
    {Location(r, c) : r \in 0..MaxScaledCoord, c \in 0..MaxScaledCoord}

\* no set, and no get_scaled, has been called yet
NoSet == [called |-> FALSE]

NoScaled == [called |-> FALSE]

grid_new ==
    /\ grid = Unbuilt
    /\ grid' = Grid_new(table)
    /\ grid_ctor' = "new"
    /\ UNCHANGED <<table, grid_writes, grid_last, grid_scaled>>
    /\ UNCHANGED <<searchVars, cacheVars, ordVars, pureVars>>

grid_try_from ==
    /\ grid = Unbuilt
    /\ grid' = Grid_try_from(table)
    /\ grid_ctor' = "try_from"
    /\ UNCHANGED <<table, grid_writes, grid_last, grid_scaled>>
    /\ UNCHANGED <<searchVars, cacheVars, ordVars, pureVars>>

grid_default ==
    /\ grid = Unbuilt
    /\ grid' = Grid_default
    /\ grid_ctor' = "default"
    /\ UNCHANGED <<table, grid_writes, grid_last, grid_scaled>>
    /\ UNCHANGED <<searchVars, cacheVars, ordVars, pureVars>>

\* grid.set(&location, value), or a write through grid.get_mut(&location)
grid_set ==
    /\ grid.tag = "Ok"
    /\ grid_writes < MaxGridSets
    /\ \E location \in GridLocations, value \in GridItems :
          /\ grid' = Grid_set(grid, location, value)
          /\ grid_last' = [called |-> TRUE, location |-> location,
                           value |-> value,
                           returned |-> Grid_set_returns(grid, location, value)]
    /\ grid_writes' = grid_writes + 1
    /\ UNCHANGED <<table, grid_ctor, grid_scaled>>
    /\ UNCHANGED <<searchVars, cacheVars, ordVars, pureVars>>

(***************************************************************************)
(* Location: the functions of generic/location.rs.  row and col are usize; *)
(* the calls are made at coordinates from 0 up to MaxCoord, far from the   *)
(* upper end of usize, so that the only end of the range in reach is 0.    *)
(***************************************************************************)
Some(v) == [some |-> TRUE, val |-> v]

\* the quotient and the remainder are stored the other way round
from_rm_index_swapped(idx, num_cols) ==
    Location(idx % num_cols, idx \div num_cols)

\* Location::from_rm_index, where num_cols is not zero
from_rm_index(idx, num_cols) ==
    Location(idx \div num_cols, idx % num_cols)

\* (-1..=1).cartesian_product(-1..=1), in the order the iterator yields
neighbor_offsets ==
    << <<-1, -1>>, <<-1, 0>>, <<-1, 1>>,
       <<0, -1>>,  <<0, 0>>,  <<0, 1>>,
       <<1, -1>>,  <<1, 0>>,  <<1, 1>> >>

\* the offsets in clockwise order from north
ORTH_LOCS_north_first == << <<-1, 0>>, <<0, 1>>, <<1, 0>>, <<0, -1>> >>

ORTH_LOCS == << <<0, 1>>, <<1, 0>>, <<0, -1>>, <<-1, 0>> >>

\* the Locations at the offsets that a filter_map closure keeps
offsets_from(self, kept) ==
    [i \in 1..Len(kept) |->
        Location(self.row + kept[i][1], self.col + kept[i][2])]

\* the offset (0, 0) is not left out
Location_neighbors_with_self(self) ==
    offsets_from(self,
        SelectSeq(neighbor_offsets,
            LAMBDA o : ~ \/ (o[1] = -1 /\ self.row = 0)
                         \/ (o[2] = -1 /\ self.col = 0)))

\* Location::neighbors
Location_neighbors(self) ==
    offsets_from(self,
        SelectSeq(neighbor_offsets,
            LAMBDA o : ~ \/ (o[1] = -1 /\ self.row = 0)
                         \/ (o[2] = -1 /\ self.col = 0)
                         \/ (o[1] = 0 /\ o[2] = 0)))

\* Location::orthogonal_neighbors
Location_orthogonal_neighbors(self) ==
    offsets_from(self,
        SelectSeq(ORTH_LOCS,
            LAMBDA o : ~ \/ (o[1] = -1 /\ self.row = 0)
                         \/ (o[2] = -1 /\ self.col = 0)))

Location_north(self) ==
    IF self.row = 0 THEN None ELSE Some(Location(self.row - 1, self.col))

Location_south(self) == Some(Location(self.row + 1, self.col))

\* col is not compared with 0: the subtraction wraps, or panics
Location_west_unchecked(self) == Some(Location(self.row, self.col - 1))

Location_west(self) ==
    IF self.col = 0 THEN None ELSE Some(Location(self.row, self.col - 1))

Location_east(self) == Some(Location(self.row, self.col + 1))

LocInputs ==
    [self : {Location(r, c) : r \in 0..MaxCoord, c \in 0..MaxCoord},
     num_cols : 0..MaxWidth,
     idx : 0..MaxIndex]

NoCall == [fn |-> "none"]

\* what a call of a Location function leaves alone
locFrame ==
    <<loc_in, hexVars, strVars, searchVars, cacheVars, gridVars, ordVars>>

loc_as_rm_index ==
    /\ loc_out' = [fn |-> "as_rm_index",
                   ret |-> as_rm_index(loc_in.self, loc_in.num_cols)]
    /\ UNCHANGED locFrame

\* idx / num_cols panics when num_cols is zero
loc_from_rm_index ==
    /\ loc_out' = [fn |-> "from_rm_index",
                   ret |-> IF loc_in.num_cols = 0
                           THEN "panic"
                           ELSE from_rm_index(loc_in.idx, loc_in.num_cols)]
    /\ UNCHANGED locFrame

loc_neighbors ==
    /\ loc_out' = [fn |-> "neighbors", ret |-> Location_neighbors(loc_in.self)]
    /\ UNCHANGED locFrame

loc_orthogonal_neighbors ==
    /\ loc_out' = [fn |-> "orthogonal_neighbors",
                   ret |-> Location_orthogonal_neighbors(loc_in.self)]
    /\ UNCHANGED locFrame

loc_north ==
    /\ loc_out' = [fn |-> "north", ret |-> Location_north(loc_in.self)]
    /\ UNCHANGED locFrame

loc_south ==
    /\ loc_out' = [fn |-> "south", ret |-> Location_south(loc_in.self)]
    /\ UNCHANGED locFrame

loc_west ==
    /\ loc_out' = [fn |-> "west", ret |-> Location_west(loc_in.self)]
    /\ UNCHANGED locFrame

loc_east ==
    /\ loc_out' = [fn |-> "east", ret |-> Location_east(loc_in.self)]
    /\ UNCHANGED locFrame

(***************************************************************************)
(* HexLocation<T>: q and r are i64, the marker T is the orientation.  The  *)
(* calls are made at coordinates within MaxHex of zero.                    *)
(***************************************************************************)
HexLocation(q, r, o) == [q |-> q, r |-> r, orientation |-> o]

abs(x) == IF x < 0 THEN -x ELSE x

\* the three differences are added without .abs()
HexLocation_distance_signed(self, other) ==
    ((self.q - other.q)
        + (self.q + self.r - other.q - other.r)
        + (self.r - other.r)) \div 2

\* HexLocation::distance: the sum is not negative, so / rounds as \div does
HexLocation_distance(self, other) ==
    (abs(self.q - other.q)
        + abs(self.q + self.r - other.q - other.r)
        + abs(self.r - other.r)) \div 2

HorizHexDir ==
    {"North", "NorthEast", "NorthWest", "South", "SouthEast", "SouthWest"}

VertHexDir ==
    {"East", "NorthEast", "SouthEast", "West", "NorthWest", "SouthWest"}

\* HexLocation<HorizHexDir>::get_neighbor
HorizHexLoc_get_neighbor(self, dir) ==
    CASE dir = "North"     -> HexLocation(self.q, self.r - 1, self.orientation)
      [] dir = "NorthEast" -> HexLocation(self.q + 1, self.r - 1, self.orientation)
      [] dir = "NorthWest" -> HexLocation(self.q - 1, self.r, self.orientation)
      [] dir = "South"     -> HexLocation(self.q, self.r + 1, self.orientation)
      [] dir = "SouthEast" -> HexLocation(self.q + 1, self.r, self.orientation)
      [] dir = "SouthWest" -> HexLocation(self.q - 1, self.r + 1, self.orientation)

\* SouthEast moves as it does in the horizontal orientation
VertHexLoc_get_neighbor_horiz_south_east(self, dir) ==
    CASE dir = "East"      -> HexLocation(self.q + 1, self.r, self.orientation)
      [] dir = "NorthEast" -> HexLocation(self.q + 1, self.r - 1, self.orientation)
      [] dir = "SouthEast" -> HexLocation(self.q + 1, self.r, self.orientation)
      [] dir = "West"      -> HexLocation(self.q - 1, self.r, self.orientation)
      [] dir = "NorthWest" -> HexLocation(self.q, self.r - 1, self.orientation)
      [] dir = "SouthWest" -> HexLocation(self.q - 1, self.r + 1, self.orientation)

\* HexLocation<VertHexDir>::get_neighbor
VertHexLoc_get_neighbor(self, dir) ==
    CASE dir = "East"      -> HexLocation(self.q + 1, self.r, self.orientation)
      [] dir = "NorthEast" -> HexLocation(self.q + 1, self.r - 1, self.orientation)
      [] dir = "SouthEast" -> HexLocation(self.q, self.r + 1, self.orientation)
      [] dir = "West"      -> HexLocation(self.q - 1, self.r, self.orientation)
      [] dir = "NorthWest" -> HexLocation(self.q, self.r - 1, self.orientation)
      [] dir = "SouthWest" -> HexLocation(self.q - 1, self.r + 1, self.orientation)

\* self and other have the same marker type; dir is of the marker's enum
HexInputs ==
    UNION {[self : {HexLocation(q, r, o) : q, r \in -MaxHex..MaxHex},
            other : {HexLocation(q, r, o) : q, r \in -MaxHex..MaxHex},
            dir : IF o = "HorizHexDir" THEN HorizHexDir ELSE VertHexDir]
           : o \in {"HorizHexDir", "VertHexDir"}}

\* what a call of a HexLocation function leaves alone
hexFrame ==
    <<hex_in, locVars, strVars, searchVars, cacheVars, gridVars, ordVars>>

hex_distance ==
    /\ hex_out' = [fn |-> "distance",
                   ret |-> HexLocation_distance(hex_in.self, hex_in.other)]
    /\ UNCHANGED hexFrame

hex_get_neighbor_horiz ==
    /\ hex_in.self.orientation = "HorizHexDir"
    /\ hex_out' = [fn |-> "get_neighbor",
                   ret |-> HorizHexLoc_get_neighbor(hex_in.self, hex_in.dir)]
    /\ UNCHANGED hexFrame

hex_get_neighbor_vert ==
    /\ hex_in.self.orientation = "VertHexDir"
    /\ hex_out' = [fn |-> "get_neighbor",
                   ret |-> VertHexLoc_get_neighbor(hex_in.self, hex_in.dir)]
    /\ UNCHANGED hexFrame

(***************************************************************************)
(* FromStr for Location.  A &str is the sequence of its characters.        *)
(***************************************************************************)
\* the characters of the texts that are parsed: two digits, the separator,
\* a blank, a sign and a letter
Chars == {"1", "2", ",", " ", "+", "x"}

Strs == UNION {[1..n -> Chars] : n \in 0..MaxStrLen}

Digit ==
    [c \in {"0", "1", "2", "3", "4", "5", "6", "7", "8", "9"} |->
        CASE c = "0" -> 0 [] c = "1" -> 1 [] c = "2" -> 2 [] c = "3" -> 3
          [] c = "4" -> 4 [] c = "5" -> 5 [] c = "6" -> 6 [] c = "7" -> 7
          [] c = "8" -> 8 [] c = "9" -> 9]

\* s.split(','): the pieces between the commas, at least one piece
RECURSIVE split(_)
split(s) ==
    IF \E i \in 1..Len(s) : s[i] = ","
    THEN LET i == CHOOSE i \in 1..Len(s) :
                     s[i] = "," /\ \A j \in 1..(i - 1) : s[j] # ","
         IN <<SubSeq(s, 1, i - 1)>> \o split(SubSeq(s, i + 1, Len(s)))
    ELSE <<s>>

RECURSIVE trim_start(_)
trim_start(s) ==
    IF s # <<>> /\ Head(s) = " " THEN trim_start(Tail(s)) ELSE s

RECURSIVE trim_end(_)
trim_end(s) ==
    IF s # <<>> /\ s[Len(s)] = " "
    THEN trim_end(SubSeq(s, 1, Len(s) - 1))
    ELSE s

\* str::trim
trim(s) == trim_end(trim_start(s))

RECURSIVE decimal(_)
decimal(digits) ==
    IF digits = <<>>
    THEN 0
    ELSE decimal(SubSeq(digits, 1, Len(digits) - 1)) * 10
             + Digit[digits[Len(digits)]]

ParseIntError(kind) == [tag |-> "Err", err |-> "ParseIntError", kind |-> kind]

ParseLocationError(prefix, s) ==
    [tag |-> "Err", err |-> "ParseLocationError",
     msg |-> [prefix |-> prefix, s |-> s]]

Ok(v) == [tag |-> "Ok", val |-> v]

\* str::parse::<usize>: an optional leading '+', then decimal digits only; the
\* texts parsed here are too short for the value not to fit a usize
parse_usize(src) ==
    IF src = <<>>
    THEN ParseIntError("Empty")
    ELSE IF src = <<"+">> \/ src = <<"-">>
    THEN ParseIntError("InvalidDigit")
    ELSE LET digits == IF Head(src) = "+" THEN Tail(src) ELSE src
         IN IF \A i \in 1..Len(digits) : digits[i] \in DOMAIN Digit
            THEN Ok(decimal(digits))
            ELSE ParseIntError("InvalidDigit")

\* <Location as FromStr>::from_str: ? hands a ParseIntError on through
\* From<ParseIntError> for AocError
Location_from_str(s) ==
    LET parts == split(s)
    IN IF Len(parts) < 1
       THEN ParseLocationError("missing row: ", s)
       ELSE LET row == parse_usize(trim(parts[1]))
            IN IF row.tag = "Err"
               THEN row
               ELSE IF Len(parts) < 2
               THEN ParseLocationError("missing col: ", s)
               ELSE LET col == parse_usize(trim(parts[2]))
                    IN IF col.tag = "Err"
                       THEN col
                       ELSE Ok(Location(row.val, col.val))

NotParsed == [tag |-> "none"]

str_from_str ==
    /\ str_out' = Location_from_str(str_in)
    /\ UNCHANGED <<str_in, locVars, hexVars>>
    /\ UNCHANGED <<searchVars, cacheVars, gridVars, ordVars>>

\* grid.get_scaled(&location, scale, scale_fn); it takes &self and leaves the
\* grid as it is, so one call from each grid is followed
grid_get_scaled ==
    /\ grid.tag = "Ok"
    /\ ~grid_scaled.called
    /\ \E location \in ScaledLocations, scale \in 0..MaxScale :
          grid_scaled' =
              IF Grid_get_scaled_panics(grid)
              THEN [called |-> TRUE, location |-> location, scale |-> scale,
                    pc |-> "panic"]
              ELSE [called |-> TRUE, location |-> location, scale |-> scale,
                    pc |-> "ok",
                    returned |-> Grid_get_scaled(grid, location, scale)]
    /\ UNCHANGED <<table, grid, grid_ctor, grid_writes, grid_last>>
    /\ UNCHANGED <<searchVars, cacheVars, ordVars, pureVars>>

(***************************************************************************)
(* The search specification: both searches are called side by side on the  *)
(* same start, goal and edge function, each with a cache of its own made   *)
(* by DefaultLocationCache::new.                                           *)
(***************************************************************************)
\* the arguments of a first call: an edge list of at most max_edges edges, a
\* start among starts, any goal, and a cache of DefaultLocationCache::new
SearchArguments(max_edges, starts) ==
    /\ \E k \in 0..max_edges : \E es \in [1..k -> AllEdges] :
          SrcSorted(es) /\ edges = es
    /\ start \in starts
    /\ goal \in Nodes

\* both calls are about to be made, each on a cache of its own that is as
\* DefaultLocationCache::new made it
SearchStartOn(cache) ==
    /\ turn = "cost"
    /\ runs = 1
    /\ c_pc = "init"
    /\ c_cache = cache
    /\ c_cache_in = cache
    /\ c_heap = <<>>
    /\ c_last = NoEntry
    /\ c_result = None
    /\ p_pc = "init"
    /\ p_cache = cache
    /\ p_cache_in = cache
    /\ p_heap = <<>>
    /\ p_last = NoEntry
    /\ p_result = None
    /\ c_iters = 0
    /\ p_iters = 0
    /\ c_calls = <<>>
    /\ p_calls = <<>>

SearchStart == SearchStartOn(FreshCache)

\* The start entry is alone in the heap when it is popped and, with its cache
\* slot at zero, is never pushed again, so where start stands in the order of
\* the node identities plays no part in a run on a fresh cache: the first
\* searches start from Location(0, 0), the later ones of SpecReuse from any node.
InitSearch ==
    /\ SearchArguments(MaxEdges, {Location(0, 0)})
    /\ SearchStart

\* the variables of the cache operations, while they are not exercised
IdleCache ==
    /\ lc = DefaultLocationCache_new(0, 1)
    /\ lc_pc = "ok"
    /\ lc_targets = {}
    /\ lc_last = NoCacheSet

\* the variables of the grid operations, while they are not exercised
IdleGrid ==
    /\ table = <<>>
    /\ grid = Unbuilt
    /\ grid_ctor = "none"
    /\ grid_writes = 0
    /\ grid_last = NoSet
    /\ grid_scaled = NoScaled

\* the variables of the ordering check, while they are not exercised
IdleOrd ==
    /\ nodes = <<>>
    /\ sorted = <<>>

\* the variables of the Location, HexLocation and from_str calls, while
\* none is made
IdleLoc ==
    /\ loc_in = [self |-> Location(0, 0), num_cols |-> 1, idx |-> 0]
    /\ loc_out = NoCall

IdleHex ==
    /\ hex_in = [self |-> HexLocation(0, 0, "HorizHexDir"),
                 other |-> HexLocation(0, 0, "HorizHexDir"), dir |-> "North"]
    /\ hex_out = NoCall

IdleStr ==
    /\ str_in = <<>>
    /\ str_out = NotParsed

IdlePure == IdleLoc /\ IdleHex /\ IdleStr

Init == InitSearch /\ IdleCache /\ IdleGrid /\ IdleOrd /\ IdlePure

NextSearch ==
    \/ dijkstra_cost_begin
    \/ dijkstra_cost_goal
    \/ dijkstra_cost_stale
    \/ dijkstra_cost_expand
    \/ dijkstra_cost_exhausted
    \/ dijkstra_path_begin
    \/ dijkstra_path_goal
    \/ dijkstra_path_stale
    \/ dijkstra_path_expand
    \/ dijkstra_path_exhausted

Next == NextSearch

Spec == Init /\ [][Next]_vars

(***************************************************************************)
(* The reuse specification: when both searches have returned, the caller   *)
(* searches again from another start, handing the same two caches in as    *)
(* the earlier searches left them.                                         *)
(***************************************************************************)
Rerun ==
    /\ c_pc = "done" /\ p_pc = "done"
    /\ runs < MaxRuns
    /\ runs' = runs + 1
    /\ start' \in EdgeNodes
    /\ turn' = "cost"
    /\ c_pc' = "init" /\ c_heap' = <<>> /\ c_last' = NoEntry
    /\ c_result' = None /\ c_iters' = 0 /\ c_calls' = <<>>
    /\ p_pc' = "init" /\ p_heap' = <<>> /\ p_last' = NoEntry
    /\ p_result' = None /\ p_iters' = 0 /\ p_calls' = <<>>
    /\ UNCHANGED <<edges, goal, c_cache, c_cache_in, p_cache, p_cache_in>>
    /\ UNCHANGED <<cacheVars, gridVars, ordVars, pureVars>>

InitReuse ==
    /\ SearchArguments(MaxReuseEdges, {Location(0, 0)})
    /\ SearchStart
    /\ IdleCache /\ IdleGrid /\ IdleOrd /\ IdlePure

NextReuse ==
    \/ dijkstra_cost_begin
    \/ dijkstra_cost_goal
    \/ dijkstra_cost_stale
    \/ dijkstra_cost_expand
    \/ dijkstra_cost_exhausted
    \/ dijkstra_path_begin
    \/ dijkstra_path_goal
    \/ dijkstra_path_stale
    \/ dijkstra_path_expand
    \/ dijkstra_path_exhausted
    \/ Rerun

SpecReuse == InitReuse /\ [][NextReuse]_vars

(***************************************************************************)
(* The small-cache specification: the caller sizes the two caches for at   *)
(* most MaxSmallSize slots of two columns, fewer than the nodes the edge   *)
(* function names.                                                         *)
(***************************************************************************)
InitSmall ==
    /\ SearchArguments(MaxSmallEdges, {Location(0, 0)})
    /\ \E size \in 0..MaxSmallSize : SearchStartOn(DefaultLocationCache_new(size, 2))
    /\ IdleCache /\ IdleGrid /\ IdleOrd /\ IdlePure

NextSmall ==
    \/ dijkstra_cost_begin
    \/ dijkstra_cost_goal
    \/ dijkstra_cost_stale
    \/ dijkstra_cost_expand
    \/ dijkstra_cost_exhausted
    \/ dijkstra_path_begin
    \/ dijkstra_path_goal
    \/ dijkstra_path_stale
    \/ dijkstra_path_expand
    \/ dijkstra_path_exhausted

SpecSmall == InitSmall /\ [][NextSmall]_vars

\* the variables of the searches, while no search is made
IdleSearch ==
    /\ edges = <<>> /\ start = Location(0, 0) /\ goal = Location(0, 0)
    /\ SearchStart

(***************************************************************************)
(* The ordering specification: a Vec of DNode is sorted.                   *)
(***************************************************************************)
InitOrd ==
    /\ \E n \in 0..MaxSortLen : nodes \in [1..n -> DNodes]
    /\ sorted = <<>>
    /\ IdleSearch /\ IdleCache /\ IdleGrid /\ IdlePure

NextOrd == nodes_sort

SpecOrd == InitOrd /\ [][NextOrd]_vars

(***************************************************************************)
(* The cache specification: a DefaultLocationCache is made by new and      *)
(* written with cache_set.                                                 *)
(***************************************************************************)
InitCache ==
    /\ \E size \in 0..MaxCacheSize, col_count \in 1..MaxCacheCols :
          lc = DefaultLocationCache_new(size, col_count)
    /\ lc_pc = "ok"
    /\ lc_targets = {}
    /\ lc_last = NoCacheSet
    /\ IdleSearch /\ IdleGrid /\ IdleOrd /\ IdlePure

NextCache == lc_cache_set

SpecCache == InitCache /\ [][NextCache]_vars

(***************************************************************************)
(* The grid specification: a Grid is made from a table by one of its       *)
(* constructors and then written with set.                                 *)
(***************************************************************************)
InitGrid ==
    /\ table \in Tables
    /\ grid = Unbuilt
    /\ grid_ctor = "none"
    /\ grid_writes = 0
    /\ grid_last = NoSet
    /\ grid_scaled = NoScaled
    /\ IdleSearch /\ IdleCache /\ IdleOrd /\ IdlePure

NextGrid ==
    \/ grid_new
    \/ grid_try_from
    \/ grid_default
    \/ grid_set

SpecGrid == InitGrid /\ [][NextGrid]_vars

(***************************************************************************)
(* The scaled-grid specification: a Grid is made from a table by one of    *)
(* its constructors and then read with get_scaled.                         *)
(***************************************************************************)
NextScale ==
    \/ grid_new
    \/ grid_try_from
    \/ grid_default
    \/ grid_get_scaled

SpecScale == InitGrid /\ [][NextScale]_vars

(***************************************************************************)
(* The Location specification: one of the functions of Location is called  *)
(* on arguments drawn from LocInputs.                                      *)
(***************************************************************************)
InitLoc ==
    /\ loc_in \in LocInputs
    /\ loc_out = NoCall
    /\ IdleSearch /\ IdleCache /\ IdleGrid /\ IdleOrd /\ IdleHex /\ IdleStr

NextLoc ==
    \/ loc_as_rm_index
    \/ loc_from_rm_index
    \/ loc_neighbors
    \/ loc_orthogonal_neighbors
    \/ loc_north
    \/ loc_south
    \/ loc_west
    \/ loc_east

SpecLoc == InitLoc /\ [][NextLoc]_vars

(***************************************************************************)
(* The HexLocation specification: distance or get_neighbor is called on    *)
(* arguments drawn from HexInputs.                                         *)
(***************************************************************************)
InitHex ==
    /\ hex_in \in HexInputs
    /\ hex_out = NoCall
    /\ IdleSearch /\ IdleCache /\ IdleGrid /\ IdleOrd /\ IdleLoc /\ IdleStr

NextHex ==
    \/ hex_distance
    \/ hex_get_neighbor_horiz
    \/ hex_get_neighbor_vert

SpecHex == InitHex /\ [][NextHex]_vars

(***************************************************************************)
(* The parsing specification: a text drawn from Strs is parsed.            *)
(***************************************************************************)
InitStr ==
    /\ str_in \in Strs
    /\ str_out = NotParsed
    /\ IdleSearch /\ IdleCache /\ IdleGrid /\ IdleOrd /\ IdleLoc /\ IdleHex

NextStr == str_from_str

SpecStr == InitStr /\ [][NextStr]_vars

(***************************************************************************)
(* What the claims about the searches are stated with: the graph as a set  *)
(* of edges, and the costs of the walks from start, computed from the      *)
(* edge list alone.                                                        *)
(***************************************************************************)
EdgeSet == {edges[i] : i \in 1..Len(edges)}

\* WalkCosts(k)[n]: the costs of the walks from start to n of at most k edges
RECURSIVE WalkCosts(_)
WalkCosts(k) ==
    IF k = 0 THEN [n \in Nodes |-> IF n = start THEN {0} ELSE {}]
    ELSE LET w == WalkCosts(k - 1)
         IN [n \in Nodes |->
                w[n] \cup UNION {{c + e.cost : c \in w[e.src]} :
                                    e \in {x \in EdgeSet : x.id = n}}]

\* every simple path has fewer edges than there are nodes
PathCosts == WalkCosts(Cardinality(Nodes) - 1)

Reachable(n) == PathCosts[n] # {}

MinCost(n) == CHOOSE c \in PathCosts[n] : \A d \in PathCosts[n] : c <= d

IsFresh(cache) == \A i \in 1..Len(cache.elements) : cache.elements[i] = CostMax

LocLeq(a, b) == a.row < b.row \/ (a.row = b.row /\ a.col <= b.col)

\* the cheapest of the edges from u to v
HopCost(u, v) ==
    LET cs == {e.cost : e \in {x \in EdgeSet : x.src = u /\ x.id = v}}
    IN CHOOSE c \in cs : \A d \in cs : c <= d

RECURSIVE PathCost(_)
PathCost(path) ==
    IF Len(path) <= 1 THEN 0
    ELSE HopCost(path[1], path[2]) + PathCost(Tail(path))

\* path leads from start to goal along edges that edges_fn returns
IsPathToGoal(path) ==
    /\ Len(path) >= 1
    /\ path[1] = start
    /\ path[Len(path)] = goal
    /\ \A i \in 1..(Len(path) - 1) :
          \E k \in 1..Len(edges_fn(path[i])) : edges_fn(path[i])[k].id = path[i + 1]

(***************************************************************************)
(* C1: on a fresh cache, when the goal is reachable from start,            *)
(* dijkstra_cost returns Some of the minimum, over all paths from start to *)
(* goal, of the sum of their edge costs.                                   *)
(***************************************************************************)
C1_Theorem ==
    (c_pc = "done" /\ IsFresh(c_cache_in) /\ Reachable(goal))
        => c_result = [some |-> TRUE, cost |-> MinCost(goal)]

\* a run that returned less than the cost of a direct edge from start to goal
C1_Witness ==
    /\ c_pc = "done"
    /\ c_result.some
    /\ \E e \in EdgeSet : e.src = start /\ e.id = goal /\ e.cost > c_result.cost

(***************************************************************************)
(* C2: on a fresh cache both searches terminate: no run pops more than     *)
(* Len(edges) + 2 times, a run that has not returned can always take its   *)
(* next pop, and no run panics; when the goal is not reachable the run    *)
(* ends with an empty heap and returns None.                               *)
(***************************************************************************)
C2_Theorem ==
    /\ c_pc # "panic" /\ p_pc # "panic"
    /\ c_iters <= Len(edges) + 2
    /\ p_iters <= Len(edges) + 2
    /\ (c_pc = "loop" /\ c_heap # <<>>) => DNode_pop_choices(c_heap) # {}
    /\ (p_pc = "loop" /\ p_heap # <<>>) => DPNode_pop_choices(p_heap) # {}
    /\ (c_pc = "done" /\ ~Reachable(goal)) => (c_result = None /\ c_heap = <<>>)
    /\ (p_pc = "done" /\ ~Reachable(goal)) => (p_result = None /\ p_heap = <<>>)

\* both runs ended exhausted on a graph with a zero-cost cycle through start
C2_Witness ==
    /\ c_pc = "done" /\ p_pc = "done"
    /\ c_result = None /\ p_result = None
    /\ c_heap = <<>> /\ p_heap = <<>>
    /\ \E e \in EdgeSet, f \in EdgeSet :
          /\ e.src = start /\ e.id = f.src /\ f.id = start
          /\ e.cost = 0 /\ f.cost = 0

(***************************************************************************)
(* C3: on a fresh cache, when the goal is reachable, dijkstra_path returns *)
(* a sequence of nodes that begins with start, ends with goal, steps only  *)
(* along edges returned by edges_fn, and costs the minimum.                *)
(***************************************************************************)
C3_Theorem ==
    (p_pc = "done" /\ IsFresh(p_cache_in) /\ Reachable(goal))
        => /\ p_result.some
           /\ IsPathToGoal(p_result.path)
           /\ PathCost(p_result.path) = MinCost(goal)

\* a returned path through a third node, cheaper than a direct edge
C3_Witness ==
    /\ p_pc = "done"
    /\ p_result.some
    /\ Len(p_result.path) = 3
    /\ \E e \in EdgeSet :
          e.src = start /\ e.id = goal /\ e.cost > PathCost(p_result.path)

BeforeFirstPop(pc, iters) == pc = "loop" /\ iters = 0

StartZeroRestKept(cache, cache_in) ==
    /\ cache_get(cache, start) = 0
    /\ \A n \in Nodes \ {start} : cache_get(cache, n) = cache_get(cache_in, n)
    /\ IsFresh(cache_in) => \A n \in Nodes \ {start} : cache_get(cache, n) = CostMax

StartZeroRestMax(cache) ==
    /\ cache_get(cache, start) = 0
    /\ \A n \in Nodes \ {start} : cache_get(cache, n) = CostMax

C5_Theorem ==
    /\ BeforeFirstPop(c_pc, c_iters) => StartZeroRestKept(c_cache, c_cache_in)
    /\ BeforeFirstPop(p_pc, p_iters) => StartZeroRestKept(p_cache, p_cache_in)

\* a second run about to pop for the first time on caches that an earlier run
\* has written
C5_Witness ==
    /\ runs = 2
    /\ BeforeFirstPop(c_pc, c_iters) /\ BeforeFirstPop(p_pc, p_iters)
    /\ \E n \in Nodes \ {start} : cache_get(c_cache, n) # CostMax
    /\ \E n \in Nodes \ {start} : cache_get(p_cache, n) # CostMax

\* C5 as stated: whatever the cache held, every node but start reads the maximum
C5_Original ==
    /\ BeforeFirstPop(c_pc, c_iters) => StartZeroRestMax(c_cache)
    /\ BeforeFirstPop(p_pc, p_iters) => StartZeroRestMax(p_cache)

(***************************************************************************)
(* C6 (as amended): each pop of either search takes an entry of the lowest *)
(* cost in the heap, and of the entries of that cost the one whose node    *)
(* identity compares least (ties are broken by node identity ascending).   *)
(***************************************************************************)
PopsLeastId(heap, x) ==
    /\ \E j \in 1..Len(heap) : heap[j] = x
    /\ \A j \in 1..Len(heap) :
          /\ x.cost <= heap[j].cost
          /\ x.cost = heap[j].cost => LocLeq(x.id, heap[j].id)

PopsGreatestId(heap, x) ==
    /\ \E j \in 1..Len(heap) : heap[j] = x
    /\ \A j \in 1..Len(heap) :
          /\ x.cost <= heap[j].cost
          /\ x.cost = heap[j].cost => LocLeq(heap[j].id, x.id)

C6_Theorem ==
    [][/\ (c_iters' = c_iters + 1 /\ c_heap # <<>>) => PopsLeastId(c_heap, c_last')
       /\ (p_iters' = p_iters + 1 /\ p_heap # <<>>) => PopsLeastId(p_heap, p_last')]_vars

\* the entry popped last tied on cost with an entry that is still in the heap
\* and was there before the pop (no edge of the popped node leads to it)
C6_Witness ==
    /\ c_pc = "loop"
    /\ c_iters >= 2
    /\ \E j \in 1..Len(c_heap) :
          /\ c_heap[j].cost = c_last.cost
          /\ c_heap[j].id # c_last.id
          /\ LocLeq(c_last.id, c_heap[j].id)
          /\ \A e \in EdgeSet : ~(e.src = c_last.id /\ e.id = c_heap[j].id)

\* C6 as stated: ties are broken by node identity descending
C6_Original ==
    [][/\ (c_iters' = c_iters + 1 /\ c_heap # <<>>) => PopsGreatestId(c_heap, c_last')
       /\ (p_iters' = p_iters + 1 /\ p_heap # <<>>) => PopsGreatestId(p_heap, p_last')]_vars

(***************************************************************************)
(* C7: the ordering of DNode is the exact reverse of the lexicographic     *)
(* order on (cost, id), ids in row-major order: a < b iff a.cost > b.cost, *)
(* or the costs are equal and a.id > b.id; it is total, and Equal only for *)
(* equal cost and id; an ascending sort lists higher costs first and,      *)
(* within one cost, greater ids first.                                     *)
(***************************************************************************)
LocLess(a, b) == a.row < b.row \/ (a.row = b.row /\ a.col < b.col)

ReverseLexLess(a, b) ==
    a.cost > b.cost \/ (a.cost = b.cost /\ LocLess(b.id, a.id))

IsPermutation(s, t) ==
    /\ Len(s) = Len(t)
    /\ \E f \in [1..Len(s) -> 1..Len(s)] :
          /\ \A i, j \in 1..Len(s) : i # j => f[i] # f[j]
          /\ \A i \in 1..Len(s) : t[f[i]] = s[i]

C7_Theorem ==
    /\ \A i, j \in 1..Len(nodes) :
          LET a == nodes[i]
              b == nodes[j]
          IN /\ DNode_cmp(a, b) = "Less" <=> ReverseLexLess(a, b)
             /\ DNode_cmp(a, b) = "Greater" <=> ReverseLexLess(b, a)
             /\ DNode_cmp(a, b) = "Equal" <=> (a.cost = b.cost /\ a.id = b.id)
    /\ sorted # <<>> =>
          /\ IsPermutation(nodes, sorted)
          /\ \A i, j \in 1..Len(sorted) :
                i < j => (ReverseLexLess(sorted[i], sorted[j]) \/ sorted[i] = sorted[j])

\* a sorted Vec of three nodes: a cost apart from a tie between two ids
C7_Witness ==
    /\ Len(sorted) = 3
    /\ sorted # nodes
    /\ sorted[1].cost > sorted[2].cost
    /\ sorted[2].cost = sorted[3].cost
    /\ LocLess(sorted[3].id, sorted[2].id)

(***************************************************************************)
(* C8 (as amended): for a DefaultLocationCache made by new(size,           *)
(* col_count), after any sequence of cache_set calls whose targets all     *)
(* have col < col_count, cache_get of every Location with col < col_count  *)
(* and row-major index < size that was never the target of a cache_set     *)
(* returns the maximum representable cost.                                 *)
(***************************************************************************)
Addressable(loc) ==
    /\ loc.col < lc.col_count
    /\ loc.row * lc.col_count + loc.col < Len(lc.elements)

NeverSetReadMax ==
    \A loc \in CacheLocations :
        (Addressable(loc) /\ loc \notin lc_targets) => cache_get(lc, loc) = CostMax

C8_Theorem ==
    (\A t \in lc_targets : t.col < lc.col_count) => NeverSetReadMax

\* two Locations were written, both within the columns, and a third that was
\* never written can be read
C8_Witness ==
    /\ lc_pc = "ok"
    /\ Cardinality(lc_targets) = 2
    /\ \A t \in lc_targets : t.col < lc.col_count /\ cache_get(lc, t) # CostMax
    /\ \E loc \in CacheLocations : Addressable(loc) /\ loc \notin lc_targets

\* C8 as stated: after any sequence of cache_set calls
C8_Original == NeverSetReadMax

(***************************************************************************)
(* C9: Grid::try_from fails with GridConstructionError if and only if some *)
(* row is not as long as the first row; on success rows * cols is the      *)
(* number of elements and get at every (r, c) with r < rows and c < cols   *)
(* returns the value of the table there; an empty table gives a grid of 0  *)
(* rows and 0 cols.                                                        *)
(***************************************************************************)
RECURSIVE ElementCount(_)
ElementCount(t) == IF t = <<>> THEN 0 ELSE Len(Head(t)) + ElementCount(Tail(t))

Jagged(t) == \E i \in 1..Len(t) : Len(t[i]) # Len(t[1])

C9_Theorem ==
    (grid_ctor = "try_from" /\ grid_writes = 0) =>
        /\ (grid.tag = "Err") <=> Jagged(table)
        /\ grid.tag = "Err" => grid.err = "GridConstructionError"
        /\ grid.tag = "Ok" =>
              /\ grid.rows * grid.cols = ElementCount(table)
              /\ \A r \in 0..(grid.rows - 1), c \in 0..(grid.cols - 1) :
                    Grid_get(grid, Location(r, c)) =
                        [some |-> TRUE, val |-> table[r + 1][c + 1]]
        /\ table = <<>> => (grid.tag = "Ok" /\ grid.rows = 0 /\ grid.cols = 0)

\* a table of two rows of two that try_from accepted
C9_Witness ==
    /\ grid_ctor = "try_from"
    /\ grid_writes = 0
    /\ grid.tag = "Ok"
    /\ grid.rows = 2 /\ grid.cols = 2
    /\ Grid_get(grid, Location(1, 1)) = [some |-> TRUE, val |-> table[2][2]]

(***************************************************************************)
(* C10: every Grid obtained from Grid::new, try_from or default and then   *)
(* written with set / get_mut has rows * cols elements, in rows that are   *)
(* all cols long.                                                          *)
(***************************************************************************)
C10_Claim ==
    grid.tag = "Ok" =>
        /\ grid.rows * grid.cols = ElementCount(grid.locations)
        /\ \A i \in 1..Len(grid.locations) : Len(grid.locations[i]) = grid.cols

(***************************************************************************)
(* C11: for every Grid and every Location, get and get_mut return a value  *)
(* exactly when row < rows and col < cols; set returns true exactly when   *)
(* row < rows and col < cols, and a set at a Location out of these bounds  *)
(* returns false and leaves every cell, rows and cols as they were.        *)
(***************************************************************************)
InBounds(g, location) == location.row < g.rows /\ location.col < g.cols

C11_Claim ==
    [][grid'.tag = "Ok" =>
          /\ \A location \in GridLocations :
                /\ Grid_get(grid', location).some <=> InBounds(grid', location)
                /\ Grid_get_mut(grid', location).some
                       <=> InBounds(grid', location)
          /\ grid_writes' = grid_writes + 1 =>
                /\ grid_last'.returned <=> InBounds(grid, grid_last'.location)
                /\ ~InBounds(grid, grid_last'.location) =>
                      (~grid_last'.returned /\ grid' = grid)]_vars

(***************************************************************************)
(* C12: for every Grid, Location loc with row < rows and col < cols and    *)
(* value v, set(loc, v) returns true, afterwards get(loc) is v, and get at *)
(* every other Location, rows and cols are what they were before.          *)
(***************************************************************************)
C12_Claim ==
    [][(/\ grid_writes' = grid_writes + 1
        /\ InBounds(grid, grid_last'.location)) =>
          /\ grid_last'.returned
          /\ Grid_get(grid', grid_last'.location) = Some(grid_last'.value)
          /\ \A other \in GridLocations \ {grid_last'.location} :
                Grid_get(grid', other) = Grid_get(grid, other)
          /\ grid'.rows = grid.rows /\ grid'.cols = grid.cols]_vars

(***************************************************************************)
(* C13: on a rectangular Grid with rows >= 1 and cols >= 1, with r_fac =   *)
(* row div rows and c_fac = col div cols, get_scaled(loc, s, f) is absent  *)
(* exactly when r_fac >= s or c_fac >= s, and is otherwise f applied to    *)
(* the cell at (row mod rows, col mod cols) and the offsets r_fac, c_fac;  *)
(* the grid keeps the table it was made from.                              *)
(***************************************************************************)
Rectangular(g) ==
    /\ Len(g.locations) = g.rows
    /\ \A i \in 1..Len(g.locations) : Len(g.locations[i]) = g.cols

C13_Theorem ==
    (/\ grid.tag = "Ok" /\ grid_scaled.called
     /\ Rectangular(grid) /\ grid.rows >= 1 /\ grid.cols >= 1) =>
        LET loc == grid_scaled.location
            s == grid_scaled.scale
            r_fac == loc.row \div grid.rows
            c_fac == loc.col \div grid.cols
            base == Grid_get(grid, Location(loc.row % grid.rows,
                                            loc.col % grid.cols))
        IN /\ grid_scaled.pc = "ok"
           /\ ~grid_scaled.returned.some <=> (r_fac >= s \/ c_fac >= s)
           /\ grid_scaled.returned.some =>
                 /\ base.some
                 /\ base.val = table[(loc.row % grid.rows) + 1]
                                    [(loc.col % grid.cols) + 1]
                 /\ grid_scaled.returned.val = scale_fn(base.val, r_fac, c_fac)
           /\ grid.locations = table

\* a cell one tile down and one tile right of the base grid was read
C13_Witness ==
    /\ grid.tag = "Ok" /\ grid_scaled.called /\ Rectangular(grid)
    /\ grid.rows = 2 /\ grid.cols = 1
    /\ grid_scaled.location = Location(3, 1)
    /\ grid_scaled.scale = 2
    /\ grid_scaled.returned =
           Some(scale_fn(table[2][1], 1, 1))

(***************************************************************************)
(* C14: for every width w >= 1, as_rm_index(w) and from_rm_index(_, w) are *)
(* inverse to each other between the Locations with col < w and the        *)
(* indices: from_rm_index(loc.as_rm_index(w), w) = loc when loc.col < w,   *)
(* and from_rm_index(i, w).as_rm_index(w) = i with a col below w.          *)
(***************************************************************************)
C14_Theorem ==
    /\ (/\ loc_out.fn = "as_rm_index"
        /\ loc_in.num_cols >= 1
        /\ loc_in.self.col < loc_in.num_cols) =>
           from_rm_index(loc_out.ret, loc_in.num_cols) = loc_in.self
    /\ (loc_out.fn = "from_rm_index" /\ loc_in.num_cols >= 1) =>
           /\ loc_out.ret.col < loc_in.num_cols
           /\ as_rm_index(loc_out.ret, loc_in.num_cols) = loc_in.idx
    /\ \A w \in 1..MaxWidth :
          \A a, b \in {l \in {x.self : x \in LocInputs} : l.col < w} :
             as_rm_index(a, w) = as_rm_index(b, w) => a = b

\* index 7 of a grid three wide is row 2, col 1
C14_Witness ==
    /\ loc_out.fn = "from_rm_index"
    /\ loc_in.num_cols = 3 /\ loc_in.idx = 7
    /\ loc_out.ret = Location(2, 1)
    /\ as_rm_index(loc_out.ret, 3) = 7

(***************************************************************************)
(* C15: north() is absent exactly when row = 0 and is otherwise            *)
(* (row - 1, col); west() is absent exactly when col = 0 and is otherwise  *)
(* (row, col - 1); south() is always (row + 1, col) and east() always      *)
(* (row, col + 1); no result has a coordinate below zero.                  *)
(***************************************************************************)
C15_Theorem ==
    LET self == loc_in.self
        ret == loc_out.ret
    IN /\ loc_out.fn = "north" =>
             /\ ~ret.some <=> self.row = 0
             /\ ret.some => ret.val = Location(self.row - 1, self.col)
       /\ loc_out.fn = "west" =>
             /\ ~ret.some <=> self.col = 0
             /\ ret.some => ret.val = Location(self.row, self.col - 1)
       /\ loc_out.fn = "south" =>
             ret = Some(Location(self.row + 1, self.col))
       /\ loc_out.fn = "east" =>
             ret = Some(Location(self.row, self.col + 1))
       /\ (loc_out.fn \in {"north", "west", "south", "east"} /\ ret.some) =>
             (ret.val.row >= 0 /\ ret.val.col >= 0)

\* west() was called on a Location in column 0, below row 0
C15_Witness ==
    /\ loc_out.fn = "west"
    /\ loc_in.self = Location(1, 0)
    /\ loc_out.ret = None

(***************************************************************************)
(* C16: neighbors() yields, each once, exactly the Locations (r, c) other  *)
(* than self with |r - row| <= 1, |c - col| <= 1, r >= 0 and c >= 0: 8 of  *)
(* them when row >= 1 and col >= 1, 3 at (0, 0), 5 when exactly one of     *)
(* row and col is 0.                                                       *)
(***************************************************************************)
Range(seq) == {seq[i] : i \in 1..Len(seq)}

Moore(self) ==
    {l \in {Location(r, c) : r \in (self.row - 1)..(self.row + 1),
                             c \in (self.col - 1)..(self.col + 1)} :
        l # self /\ l.row >= 0 /\ l.col >= 0}

C16_Theorem ==
    loc_out.fn = "neighbors" =>
        LET self == loc_in.self
            ret == loc_out.ret
        IN /\ Range(ret) = Moore(self)
           /\ Len(ret) = Cardinality(Moore(self))
           /\ (self.row >= 1 /\ self.col >= 1) => Len(ret) = 8
           /\ (self.row = 0 /\ self.col = 0) => Len(ret) = 3
           /\ ((self.row = 0) # (self.col = 0)) => Len(ret) = 5

\* the neighbors of a Location on the top edge, away from the corner
C16_Witness ==
    /\ loc_out.fn = "neighbors"
    /\ loc_in.self = Location(0, 1)
    /\ Len(loc_out.ret) = 5
    /\ Location(1, 2) \in Range(loc_out.ret)

(***************************************************************************)
(* C17: orthogonal_neighbors() yields, in the order east, south, west,     *)
(* north, those of (row, col + 1), (row + 1, col), (row, col - 1) and      *)
(* (row - 1, col) that have no negative coordinate: 4 of them when         *)
(* row >= 1 and col >= 1, 2 at (0, 0), 3 when exactly one of them is 0.    *)
(***************************************************************************)
EastSouthWestNorth(self) ==
    SelectSeq(<< Location(self.row, self.col + 1),
                 Location(self.row + 1, self.col),
                 Location(self.row, self.col - 1),
                 Location(self.row - 1, self.col) >>,
              LAMBDA l : l.row >= 0 /\ l.col >= 0)

C17_Theorem ==
    loc_out.fn = "orthogonal_neighbors" =>
        LET self == loc_in.self
            ret == loc_out.ret
        IN /\ ret = EastSouthWestNorth(self)
           /\ (self.row >= 1 /\ self.col >= 1) => Len(ret) = 4
           /\ (self.row = 0 /\ self.col = 0) => Len(ret) = 2
           /\ ((self.row = 0) # (self.col = 0)) => Len(ret) = 3

\* the orthogonal neighbors of a Location on the left edge: no west
C17_Witness ==
    /\ loc_out.fn = "orthogonal_neighbors"
    /\ loc_in.self = Location(1, 0)
    /\ loc_out.ret = <<Location(1, 1), Location(2, 0), Location(0, 0)>>

(***************************************************************************)
(* C18: for hex locations a and b of one orientation, with q and r within  *)
(* MaxHex of zero, a.distance(b) = b.distance(a), a.distance(a) = 0, and   *)
(* a.distance(b) is a non-negative integer, exactly half of                *)
(* |dq| + |dq + dr| + |dr|.                                                *)
(***************************************************************************)
C18_Theorem ==
    hex_out.fn = "distance" =>
        LET a == hex_in.self
            b == hex_in.other
            dq == a.q - b.q
            dr == a.r - b.r
        IN /\ hex_out.ret = HexLocation_distance(b, a)
           /\ HexLocation_distance(a, a) = 0
           /\ hex_out.ret \in Nat
           /\ 2 * hex_out.ret = abs(dq) + abs(dq + dr) + abs(dr)

\* the distance of the doc example, from the origin to (2, -1), and more
C18_Witness ==
    /\ hex_out.fn = "distance"
    /\ hex_in.self = HexLocation(-1, 1, "VertHexDir")
    /\ hex_in.other = HexLocation(2, -1, "VertHexDir")
    /\ hex_out.ret = 3

(***************************************************************************)
(* C19: in each of the two orientations, for every hex location h and each *)
(* of the six directions d, h.get_neighbor(d).get_neighbor(opposite(d)) is *)
(* h, where opposite swaps North and South, East and West, NorthEast and   *)
(* SouthWest, NorthWest and SouthEast.                                     *)
(***************************************************************************)
opposite(d) ==
    CASE d = "North"     -> "South"
      [] d = "South"     -> "North"
      [] d = "East"      -> "West"
      [] d = "West"      -> "East"
      [] d = "NorthEast" -> "SouthWest"
      [] d = "SouthWest" -> "NorthEast"
      [] d = "NorthWest" -> "SouthEast"
      [] d = "SouthEast" -> "NorthWest"

get_neighbor(h, d) ==
    IF h.orientation = "HorizHexDir"
    THEN HorizHexLoc_get_neighbor(h, d)
    ELSE VertHexLoc_get_neighbor(h, d)

C19_Theorem ==
    hex_out.fn = "get_neighbor" =>
        /\ hex_out.ret # hex_in.self
        /\ get_neighbor(hex_out.ret, opposite(hex_in.dir)) = hex_in.self

\* a vertical hex location was left to the south east, where the two
\* orientations differ
C19_Witness ==
    /\ hex_out.fn = "get_neighbor"
    /\ hex_in.self = HexLocation(1, 1, "VertHexDir")
    /\ hex_in.dir = "SouthEast"
    /\ hex_out.ret = HexLocation(1, 2, "VertHexDir")

(***************************************************************************)
(* C20: a text "<row>, <col>" of two non-negative integer fields, blanks   *)
(* around them trimmed, parses to Location(row, col); every other text,    *)
(* with a field missing or a field that is not an integer, fails with      *)
(* ParseLocationError carrying the text.                                   *)
(***************************************************************************)
IsIntegerField(f) ==
    LET t == trim(f)
    IN t # <<>> /\ \A i \in 1..Len(t) : t[i] \in DOMAIN Digit

WellFormed(s) ==
    /\ Cardinality({i \in 1..Len(s) : s[i] = ","}) = 1
    /\ \A i \in 1..2 : IsIntegerField(split(s)[i])

C20_Claim ==
    str_out # NotParsed =>
        IF WellFormed(str_in)
        THEN str_out = Ok(Location(decimal(trim(split(str_in)[1])),
                                   decimal(trim(split(str_in)[2]))))
        ELSE /\ str_out.tag = "Err"
             /\ str_out.err = "ParseLocationError"
             /\ str_out.msg.s = str_in

(***************************************************************************)
(* The relaxation of one expansion step, as the walk over the edges that   *)
(* spec.md describes.                                                      *)
(***************************************************************************)
\* what the cache holds for node n when the loop reaches es[i]: the value it
\* had when the node was popped, lowered by each earlier edge to n whose
\* candidate was strictly below the value of that moment
RECURSIVE CurrentAt(_, _, _, _, _)
CurrentAt(cache, k, es, i, n) ==
    IF i = 1 THEN cache_get(cache, n)
    ELSE LET prev == CurrentAt(cache, k, es, i - 1, n)
         IN IF es[i - 1].id = n /\ k + es[i - 1].cost < prev
            THEN k + es[i - 1].cost
            ELSE prev

\* the positions of the edges whose candidate is strictly below the cache's
\* current value for their destination, in list order
Improving(cache, k, es) ==
    SelectSeq([i \in 1..Len(es) |-> i],
              LAMBDA i : k + es[i].cost < CurrentAt(cache, k, es, i, es[i].id))

\* the step pops a live entry that is not the goal and walks all its edges
CostExpands ==
    /\ c_pc = "loop" /\ c_pc' = "loop"
    /\ c_iters' = c_iters + 1
    /\ c_heap # <<>>
    /\ c_last'.id # goal
    /\ ~(c_last'.cost > cache_get(c_cache, c_last'.id))

PathExpands ==
    /\ p_pc = "loop" /\ p_pc' = "loop"
    /\ p_iters' = p_iters + 1
    /\ p_heap # <<>>
    /\ p_last'.id # goal
    /\ ~(p_last'.cost > cache_get(p_cache, p_last'.id))

C21_CostStep ==
    CostExpands =>
        LET k == c_last'.cost
            es == edges_fn(c_last'.id)
            won == Improving(c_cache, k, es)
        IN /\ \A n \in Nodes :
                cache_get(c_cache', n) = CurrentAt(c_cache, k, es, Len(es) + 1, n)
           /\ \E i \in DNode_pop_choices(c_heap) :
                /\ c_heap[i] = c_last'
                /\ c_heap' = RemoveAt(c_heap, i) \o
                      [j \in 1..Len(won) |->
                          [id |-> es[won[j]].id, cost |-> k + es[won[j]].cost]]

C21_PathStep ==
    PathExpands =>
        LET k == p_last'.cost
            es == edges_fn(p_last'.id)
            won == Improving(p_cache, k, es)
        IN /\ \A n \in Nodes :
                cache_get(p_cache', n) = CurrentAt(p_cache, k, es, Len(es) + 1, n)
           /\ \E i \in DPNode_pop_choices(p_heap) :
                /\ p_heap[i] = p_last'
                /\ p_heap' = RemoveAt(p_heap, i) \o
                      [j \in 1..Len(won) |->
                          [id |-> es[won[j]].id, cost |-> k + es[won[j]].cost,
                           path |-> Append(p_last'.path, es[won[j]].id)]]

(***************************************************************************)
(* C21: in each expansion step, for every edge (dest, c) of the popped     *)
(* node with cost k, in list order: the cache entry of dest becomes k + c  *)
(* and an entry (dest, k + c) is pushed exactly when k + c is strictly     *)
(* below the cache's current value for dest; otherwise neither the cache   *)
(* nor the open set changes, so an equal-cost candidate is not pushed.     *)
(***************************************************************************)
C21_Theorem == [][C21_CostStep /\ C21_PathStep]_vars

\* start was expanded over two equal edges to one node: the first candidate
\* was pushed, the second, equal to the cache by then, was not
C21_Witness ==
    /\ start # goal
    /\ c_calls = <<start>> /\ p_calls = <<start>>
    /\ LET es == edges_fn(start)
       IN /\ Len(es) = 2
          /\ es[1] = es[2]
          /\ c_heap = <<[id |-> es[1].id, cost |-> es[1].cost]>>
          /\ p_heap = <<[id |-> es[1].id, cost |-> es[1].cost,
                         path |-> <<start, es[1].id>>]>>

\* the step pops an entry that is not the goal and whose cost is strictly
\* above the cache's value for its node
CostDiscards ==
    /\ c_pc = "loop"
    /\ c_iters' = c_iters + 1
    /\ c_heap # <<>>
    /\ c_last'.id # goal
    /\ c_last'.cost > cache_get(c_cache, c_last'.id)

PathDiscards ==
    /\ p_pc = "loop"
    /\ p_iters' = p_iters + 1
    /\ p_heap # <<>>
    /\ p_last'.id # goal
    /\ p_last'.cost > cache_get(p_cache, p_last'.id)

C22_CostStep ==
    CostDiscards =>
        /\ c_calls' = c_calls
        /\ c_cache' = c_cache
        /\ c_pc' = "loop" /\ c_result' = c_result
        /\ \E i \in DNode_pop_choices(c_heap) :
              c_heap[i] = c_last' /\ c_heap' = RemoveAt(c_heap, i)

C22_PathStep ==
    PathDiscards =>
        /\ p_calls' = p_calls
        /\ p_cache' = p_cache
        /\ p_pc' = "loop" /\ p_result' = p_result
        /\ \E i \in DPNode_pop_choices(p_heap) :
              p_heap[i] = p_last' /\ p_heap' = RemoveAt(p_heap, i)

(***************************************************************************)
(* C22: a popped entry that is not the goal and whose cost is strictly     *)
(* greater than the cache's value for its node is discarded: the edge      *)
(* function is not called for it, and the cache and the rest of the open   *)
(* set stay as they were.                                                  *)
(***************************************************************************)
C22_Theorem == [][C22_CostStep /\ C22_PathStep]_vars

\* both searches have just discarded a stale entry: the entry popped last
\* lies above the cache's value for its node and the search goes on
C22_Witness ==
    /\ c_pc = "loop" /\ p_pc = "loop"
    /\ c_iters >= 1 /\ p_iters >= 1
    /\ c_last.id # goal /\ p_last.id # goal
    /\ c_last.cost > cache_get(c_cache, c_last.id)
    /\ p_last.cost > cache_get(p_cache, p_last.id)

\* a DPNode without its path
AsDNode(node) == [id |-> node.id, cost |-> node.cost]

\* both searches have made their first push and popped equally often
InStep == c_pc # "init" /\ p_pc # "init" /\ c_iters = p_iters

(***************************************************************************)
(* C23: dijkstra_cost and dijkstra_path, run side by side on the same      *)
(* start, goal and edge function, each on a fresh cache of its own, pop    *)
(* the same entries, write the same cache values and push the same entries *)
(* (paths aside) in the same order; dijkstra_path returns a path exactly   *)
(* when dijkstra_cost returns a cost, the edge costs along that path sum   *)
(* to that cost, and the two caches end in the same state.                 *)
(***************************************************************************)
C23_Theorem ==
    InStep =>
        /\ c_pc = p_pc
        /\ c_cache = p_cache
        /\ c_calls = p_calls
        /\ Len(c_heap) = Len(p_heap)
        /\ \A i \in 1..Len(c_heap) : c_heap[i] = AsDNode(p_heap[i])
        /\ c_iters >= 1 => c_last = AsDNode(p_last)
        /\ c_result.some = p_result.some
        /\ c_result.some =>
              /\ IsPathToGoal(p_result.path)
              /\ PathCost(p_result.path) = c_result.cost

\* both searches have returned, after more than one expansion and with a
\* result that is not the start alone
C23_Witness ==
    /\ InStep
    /\ c_pc = "done" /\ p_pc = "done"
    /\ c_result.some /\ p_result.some
    /\ Len(p_result.path) >= 3
    /\ c_result.cost >= 1
    /\ Len(c_calls) >= 2

\* some edge that edges_fn returns for node u leads outside the cache
NamesOutOfRange(cache, u) ==
    \E k \in 1..Len(edges_fn(u)) : ~cache_in_range(cache, edges_fn(u)[k].id)

\* the search on this cache, having called edges_fn on calls, has ended in an
\* out-of-range access exactly when start or a node that one of its calls
\* returned lies outside the cache, and then it has returned nothing
FailsOnAccess(pc, cache, calls, result) ==
    /\ ~cache_in_range(cache, start) => pc \in {"init", "panic"}
    /\ \A i \in 1..Len(calls) :
          NamesOutOfRange(cache, calls[i]) => pc = "panic" /\ i = Len(calls)
    /\ pc = "panic" =>
          /\ result = None
          /\ \/ ~cache_in_range(cache, start) /\ calls = <<>>
             \/ calls # <<>> /\ NamesOutOfRange(cache, calls[Len(calls)])

(***************************************************************************)
(* C24: with a DefaultLocationCache of a given size and col_count, when    *)
(* the start node, or a node in the edges that a call of the edge function *)
(* made by the search returns, has row * col_count + col >= size, the      *)
(* search returns neither a cost (or path) nor the absent value: it ends   *)
(* in an out-of-range access at the cache write of start or at the cache   *)
(* read of that node, and no bounds check turns this into a returned       *)
(* error.  A search that returns before it expands a node with such an     *)
(* edge returns as usual, and it fails for no other reason.                *)
(***************************************************************************)
C24_Theorem ==
    /\ FailsOnAccess(c_pc, c_cache, c_calls, c_result)
    /\ FailsOnAccess(p_pc, p_cache, p_calls, p_result)

\* both searches failed while they walked the edges of the second node they
\* expanded, after the first expansion had gone through
C24_Witness ==
    /\ c_pc = "panic" /\ p_pc = "panic"
    /\ Len(c_calls) = 2 /\ Len(p_calls) = 2
    /\ cache_in_range(c_cache, start)
    /\ ~NamesOutOfRange(c_cache, c_calls[1])
    /\ NamesOutOfRange(c_cache, c_calls[2])

\* C24 as stated: a node outside the cache anywhere among the edges the edge
\* function can return keeps the search from returning
C24_Original ==
    (\/ ~cache_in_range(c_cache, start)
     \/ \E u \in Nodes : NamesOutOfRange(c_cache, u))
        => c_pc # "done" /\ p_pc # "done"

\* no node occurs twice in the list of calls
CalledOnce(calls) ==
    \A i, j \in 1..Len(calls) : calls[i] = calls[j] => i = j

\* the step pops one more entry for a node that was expanded before
CostPopsExpanded ==
    /\ c_pc = "loop" /\ c_iters' = c_iters + 1 /\ c_heap # <<>>
    /\ \E i \in 1..Len(c_calls) : c_calls[i] = c_last'.id

PathPopsExpanded ==
    /\ p_pc = "loop" /\ p_iters' = p_iters + 1 /\ p_heap # <<>>
    /\ \E i \in 1..Len(p_calls) : p_calls[i] = p_last'.id

C25_Step ==
    /\ CostPopsExpanded =>
          /\ c_calls' = c_calls
          /\ c_last'.id = goal \/ c_last'.cost > cache_get(c_cache, c_last'.id)
    /\ PathPopsExpanded =>
          /\ p_calls' = p_calls
          /\ p_last'.id = goal \/ p_last'.cost > cache_get(p_cache, p_last'.id)
    /\ CalledOnce(c_calls') /\ CalledOnce(p_calls')

(***************************************************************************)
(* C25: in a run of dijkstra_cost or dijkstra_path on a fresh cache (edge  *)
(* costs are unsigned), the edge function is called at most once per node: *)
(* once a node has been expanded, every later popped entry for it is       *)
(* discarded as stale or is the goal.                                      *)
(***************************************************************************)
C25_Theorem == [][C25_Step]_vars

\* both searches have just popped a stale entry for a node they had expanded
\* before, and still hold one call for each node
C25_Witness ==
    /\ Len(c_calls) >= 2 /\ Len(p_calls) >= 2
    /\ c_pc = "loop" /\ p_pc = "loop"
    /\ c_iters > Len(c_calls) /\ p_iters > Len(p_calls)
    /\ \E i \in 1..Len(c_calls) : c_calls[i] = c_last.id
    /\ c_last.id # goal
    /\ c_last.cost > cache_get(c_cache, c_last.id)
    /\ \E i \in 1..Len(p_calls) : p_calls[i] = p_last.id
    /\ p_last.id # goal
    /\ p_last.cost > cache_get(p_cache, p_last.id)

\* the step pops an entry after an earlier pop
CostPopsAgain == c_pc = "loop" /\ c_iters >= 1 /\ c_iters' = c_iters + 1 /\ c_heap # <<>>

PathPopsAgain == p_pc = "loop" /\ p_iters >= 1 /\ p_iters' = p_iters + 1 /\ p_heap # <<>>

C26_Step ==
    /\ CostPopsAgain => c_last'.cost >= c_last.cost
    /\ PathPopsAgain => p_last'.cost >= p_last.cost
    /\ c_iters' >= 1 => \A i \in 1..Len(c_heap') : c_heap'[i].cost >= c_last'.cost
    /\ p_iters' >= 1 => \A i \in 1..Len(p_heap') : p_heap'[i].cost >= p_last'.cost

(***************************************************************************)
(* C26: the costs of the entries a search pops never decrease from one pop *)
(* to the next, and every entry in the open set costs at least as much as  *)
(* the entry popped most recently.                                         *)
(***************************************************************************)
C26_Theorem == [][C26_Step]_vars

\* both searches have popped an entry dearer than the one before and still
\* hold entries, one of them dearer again
C26_Witness ==
    /\ c_pc = "loop" /\ p_pc = "loop"
    /\ c_iters >= 2 /\ p_iters >= 2
    /\ c_last.cost >= 1 /\ p_last.cost >= 1
    /\ \E i \in 1..Len(c_heap) : c_heap[i].cost > c_last.cost
    /\ \E i \in 1..Len(p_heap) : p_heap[i].cost > p_last.cost

C27_Inv ==
    /\ LET costs == PathCosts
       IN \A n \in Nodes :
             /\ cache_get(c_cache, n) # CostMax => cache_get(c_cache, n) \in costs[n]
             /\ cache_get(p_cache, n) # CostMax => cache_get(p_cache, n) \in costs[n]
    /\ \A i \in 1..Len(c_heap) : c_heap[i].cost >= cache_get(c_cache, c_heap[i].id)
    /\ \A i \in 1..Len(p_heap) : p_heap[i].cost >= cache_get(p_cache, p_heap[i].id)

C27_Step ==
    \A n \in Nodes :
        /\ cache_get(c_cache', n) <= cache_get(c_cache, n)
        /\ cache_get(p_cache', n) <= cache_get(p_cache, n)

(***************************************************************************)
(* C27: throughout a search on a fresh cache, the cache's value for a node *)
(* is the maximum cost or the cost of an actual path from start to that    *)
(* node (so never below the shortest distance), the value never increases, *)
(* and every open-set entry (n, k) has k at least the cache's value for n. *)
(***************************************************************************)
C27_Theorem == []C27_Inv /\ [][C27_Step]_vars

\* both searches lowered a node's cache value to the cost of a path of two
\* edges, and their open sets still hold the dearer entry pushed for it before
C27_Witness ==
    /\ \E i \in 1..Len(c_heap) :
          /\ c_heap[i].cost > cache_get(c_cache, c_heap[i].id)
          /\ cache_get(c_cache, c_heap[i].id) = MinCost(c_heap[i].id)
    /\ \E i, j \in 1..Len(p_heap) :
          /\ p_heap[i].cost > cache_get(p_cache, p_heap[i].id)
          /\ p_heap[j].id = p_heap[i].id
          /\ p_heap[j].cost = cache_get(p_cache, p_heap[i].id)
          /\ Len(p_heap[j].path) = 3

(***************************************************************************)
(* C28: on a fresh cache the open set never holds two entries with the     *)
(* same node and the same cost, so no two of its entries compare Equal,    *)
(* the entry that pop removes is determined, and with it the sequence of   *)
(* pops and the result.                                                    *)
(***************************************************************************)
C28_Theorem ==
    /\ \A i, j \in 1..Len(c_heap) :
          i # j => /\ c_heap[i] # c_heap[j]
                   /\ DNode_cmp(c_heap[i], c_heap[j]) # "Equal"
    /\ \A i, j \in 1..Len(p_heap) :
          i # j => /\ AsDNode(p_heap[i]) # AsDNode(p_heap[j])
                   /\ DPNode_cmp(p_heap[i], p_heap[j]) # "Equal"
    /\ c_heap # <<>> => Cardinality(DNode_pop_choices(c_heap)) = 1
    /\ p_heap # <<>> => Cardinality(DPNode_pop_choices(p_heap)) = 1

\* both open sets hold two entries for one node and two entries of one cost
C28_Witness ==
    /\ \E i, j \in 1..Len(c_heap) : i # j /\ c_heap[i].id = c_heap[j].id
    /\ \E i, j \in 1..Len(c_heap) : i # j /\ c_heap[i].cost = c_heap[j].cost
    /\ \E i, j \in 1..Len(p_heap) : i # j /\ p_heap[i].id = p_heap[j].id
    /\ \E i, j \in 1..Len(p_heap) : i # j /\ p_heap[i].cost = p_heap[j].cost

\* id has a column below the cache's column count and a slot in the cache
HasSlot(cache, id) == id.col < cache.col_count /\ cache_in_range(cache, id)

C29_Step ==
    (lc_last'.called /\ lc_pc' = "ok" /\ HasSlot(lc, lc_last'.id)) =>
        /\ cache_get(lc', lc_last'.id) = lc_last'.val
        /\ \A b \in CacheLocations :
              (b # lc_last'.id /\ HasSlot(lc, b)) =>
                  cache_get(lc', b) = cache_get(lc, b)

C29_Slots ==
    \A a, b \in CacheLocations :
        (a # b /\ as_rm_index(a, lc.col_count) = as_rm_index(b, lc.col_count)) =>
            a.col >= lc.col_count \/ b.col >= lc.col_count

(***************************************************************************)
(* C29: for a DefaultLocationCache with column count w, cache_set(a, v)    *)
(* makes cache_get(a) equal v and leaves cache_get(b) as it was for every  *)
(* other Location b, provided a and b have a column below w and a          *)
(* row-major index inside the cache; two distinct Locations share a slot   *)
(* only if one of them has a column of w or more.                          *)
(***************************************************************************)
C29_Theorem == []C29_Slots /\ [][C29_Step]_vars

\* a second Location of the cache was set to another value than the first,
\* which still reads as it was set; a third Location shares the slot of one
\* of them
C29_Witness ==
    /\ lc_pc = "ok"
    /\ lc_last.called
    /\ HasSlot(lc, lc_last.id)
    /\ \E b \in lc_targets :
          /\ b # lc_last.id
          /\ HasSlot(lc, b)
          /\ b.row # lc_last.id.row
          /\ cache_get(lc, b) # lc_last.val
          /\ cache_get(lc, b) # CostMax
    /\ \E a \in CacheLocations :
          /\ a # lc_last.id
          /\ as_rm_index(a, lc.col_count) = as_rm_index(lc_last.id, lc.col_count)

\* the costs of the edges from u to v that edges_fn returns
HopCosts(u, v) == {e.cost : e \in {x \in EdgeSet : x.src = u /\ x.id = v}}

\* the sums of edge costs along path, one edge taken for each consecutive pair
RECURSIVE PathSums(_)
PathSums(path) ==
    IF Len(path) <= 1 THEN {0}
    ELSE {c + s : c \in HopCosts(path[1], path[2]), s \in PathSums(Tail(path))}

(***************************************************************************)
(* C30: every entry (id, cost, path) in the open set of dijkstra_path has  *)
(* a non-empty path that begins at start and ends at id, each consecutive  *)
(* pair of path nodes is an edge that the edge function returns, and the   *)
(* costs of those edges sum to the entry's cost.                           *)
(***************************************************************************)
C30_Theorem ==
    \A i \in 1..Len(p_heap) :
        LET path == p_heap[i].path
        IN /\ path # <<>>
           /\ path[1] = start
           /\ path[Len(path)] = p_heap[i].id
           /\ \A k \in 1..(Len(path) - 1) : HopCosts(path[k], path[k + 1]) # {}
           /\ p_heap[i].cost \in PathSums(path)

\* the open set holds an entry whose path has two edges of cost one
C30_Witness ==
    \E i \in 1..Len(p_heap) :
        /\ Len(p_heap[i].path) = 3
        /\ p_heap[i].cost = 2

====
